------------------------------ MODULE Spec2Model ------------------------------
(***************************************************************************)
(* CelestialMCP: catalog ingestion, name resolution and the process        *)
(* life cycle (module import, server start, queries) of                    *)
(* src/utils/astronomy.ts, modelled as a state machine.                    *)
(*                                                                         *)
(* Strings are sequences of one-character strings, so that toLowerCase,    *)
(* trim, prefix tests and zero stripping are computed character by         *)
(* character.  Numbers are records [k, v]: k is "num", "nan", "inf" or     *)
(* "undef" (JavaScript undefined), and v is the value in units of          *)
(* 1/Unit hour (right ascension) or 1/Unit degree (declination).           *)
(***************************************************************************)
EXTENDS Integers, Sequences, FiniteSets, TLC

(***************************************************************************)
(* Strings                                                                 *)
(***************************************************************************)
UpperToLower ==
("A" :> "a") @@ ("B" :> "b") @@ ("C" :> "c") @@ ("D" :> "d") @@ ("E" :> "e") @@ ("F" :> "f") @@ ("G" :> "g") @@ ("H" :> "h") @@ ("I" :> "i") @@ ("J" :> "j") @@ ("K" :> "k") @@ ("L" :> "l") @@ ("M" :> "m") @@ ("N" :> "n") @@ ("O" :> "o") @@ ("P" :> "p") @@ ("Q" :> "q") @@ ("R" :> "r") @@ ("S" :> "s") @@ ("T" :> "t") @@ ("U" :> "u") @@ ("V" :> "v") @@ ("W" :> "w") @@ ("X" :> "x") @@ ("Y" :> "y") @@ ("Z" :> "z")

LowerChar(c) == IF c \in DOMAIN UpperToLower THEN UpperToLower[c] ELSE c

UpperChar(c) ==
  IF \E u \in DOMAIN UpperToLower : UpperToLower[u] = c
  THEN CHOOSE u \in DOMAIN UpperToLower : UpperToLower[u] = c
  ELSE c

toLowerCase(s) == [i \in 1..Len(s) |-> LowerChar(s[i])]

WhiteSpace == {" ", "\t"}

RECURSIVE trimStart(_)
trimStart(s) ==
  IF s # <<>> /\ Head(s) \in WhiteSpace THEN trimStart(Tail(s)) ELSE s

RECURSIVE trimEnd(_)
trimEnd(s) ==
  IF s # <<>> /\ s[Len(s)] \in WhiteSpace
  THEN trimEnd(SubSeq(s, 1, Len(s) - 1))
  ELSE s

trim(s) == trimEnd(trimStart(s))

startsWith(s, p) == Len(s) >= Len(p) /\ SubSeq(s, 1, Len(p)) = p

Digits == {"0", "1", "2", "3", "4", "5", "6", "7", "8", "9"}

RECURSIVE stripZeros(_)
stripZeros(s) ==
  IF s # <<>> /\ Head(s) = "0" THEN stripZeros(Tail(s)) ELSE s

(* The regular expression match "prefix, any zeros, then a number that     *)
(* starts with 1-9, and nothing else": the number, or <<>> when the name   *)
(* does not match.                                                         *)
matchZeroPadded(name, prefix) ==
  IF startsWith(name, prefix)
  THEN LET rest == SubSeq(name, Len(prefix) + 1, Len(name))
           num  == stripZeros(rest)
       IN  IF num # <<>> /\ \A i \in 1..Len(num) : num[i] \in Digits
           THEN num
           ELSE <<>>
  ELSE <<>>

RECURSIVE leadingDigits(_)
leadingDigits(s) ==
  IF s # <<>> /\ Head(s) \in Digits
  THEN <<Head(s)>> \o leadingDigits(Tail(s))
  ELSE <<>>

(* parseInt(text, 10).toString() for an unsigned text: the leading digits  *)
(* without leading zeros, "NaN" when the text does not start with a digit. *)
parseIntToString(text) ==
  LET ds == leadingDigits(trimStart(text))
  IN  IF ds = <<>> THEN <<"N", "a", "N">>
      ELSE IF stripZeros(ds) = <<>> THEN <<"0">>
      ELSE stripZeros(ds)

(* a || b on strings: the empty string is falsy.                           *)
OrElse(a, b) == IF a # <<>> THEN a ELSE b

(***************************************************************************)
(* Numbers                                                                 *)
(***************************************************************************)
Unit == 3600 * 50

Num(v) == [k |-> "num", v |-> v]
NaN == [k |-> "nan", v |-> 0]
Infinity == [k |-> "inf", v |-> 0]
undefined == [k |-> "undef", v |-> 0]

isNaN(x) == x.k \in {"nan", "undef"}

(* x + y and x / d (d a positive constant) on the numbers above; only      *)
(* +Infinity occurs.                                                       *)
Plus(x, y) ==
  IF isNaN(x) \/ isNaN(y) THEN NaN
  ELSE IF x.k = "inf" \/ y.k = "inf" THEN Infinity
  ELSE Num(x.v + y.v)

DivBy(x, d) ==
  IF isNaN(x) THEN NaN
  ELSE IF x.k = "inf" THEN Infinity
  ELSE Num(IF x.v >= 0 THEN x.v \div d ELSE -((-x.v) \div d))

MathAbs(x) == IF x.k = "num" /\ x.v < 0 THEN Num(-x.v) ELSE x

Times(x, sign) == IF x.k = "num" THEN Num(x.v * sign) ELSE x

LessThan(x, c) == x.k = "num" /\ x.v < c

(* A numeric column holds a text; the text is modelled as its parts        *)
(* between colons, each part a token: a decimal number ("num"), a zero     *)
(* written with a minus sign such as -00 ("negzero"), the word Infinity    *)
(* ("inf") or anything else ("junk").  NoColumn is the value of a column   *)
(* the header does not have (undefined).                                   *)
Tok(v) == [k |-> "num", v |-> v]
NegZeroTok == [k |-> "negzero", v |-> 0]
Junk == [k |-> "junk", v |-> 0]
InfTok == [k |-> "inf", v |-> 0]
NoColumn == <<[k |-> "undef", v |-> 0]>>

(* parseFloat("-00") is -0, which no comparison or sum tells from 0.       *)
parseFloatPart(t) ==
  IF t.k = "num" THEN Num(t.v)
  ELSE IF t.k = "negzero" THEN Num(0)
  ELSE IF t.k = "inf" THEN Infinity
  ELSE NaN

(* parseFloat reads the longest numeric prefix: the first part.            *)
parseFloat(field) ==
  IF field = <<>> \/ field = NoColumn THEN NaN ELSE parseFloatPart(field[1])

(***************************************************************************)
(* Catalog entries and the built-in tables                                 *)
(***************************************************************************)
(* The value of a property an object does not have.                        *)
NoText == <<"undefined">>

(* A literal { rightAscension: a, declination: d } whose numbers are       *)
(* written with four decimals: ra4 and dec4 are the values times 10^4.     *)
Coords(ra4, dec4) ==
  [rightAscension |-> Num(ra4 * (Unit \div 10000)),
   declination |-> Num(dec4 * (Unit \div 10000)),
   commonName |-> NoText, type |-> NoText]

HARDCODED_STAR_CATALOG ==
  (<<"S", "i", "r", "i", "u", "s">> :> Coords(67525, -167161)) @@
  (<<"C", "a", "n", "o", "p", "u", "s">> :> Coords(63992, -526956)) @@
  (<<"A", "r", "c", "t", "u", "r", "u", "s">> :> Coords(142612, 191822)) @@
  (<<"V", "e", "g", "a">> :> Coords(186157, 387836)) @@
  (<<"C", "a", "p", "e", "l", "l", "a">> :> Coords(52778, 459981)) @@
  (<<"R", "i", "g", "e", "l">> :> Coords(52422, -82017)) @@
  (<<"P", "r", "o", "c", "y", "o", "n">> :> Coords(76550, 52242)) @@
  (<<"B", "e", "t", "e", "l", "g", "e", "u", "s", "e">> :> Coords(59194, 74071)) @@
  (<<"A", "c", "h", "e", "r", "n", "a", "r">> :> Coords(16285, -572367)) @@
  (<<"P", "o", "l", "a", "r", "i", "s">> :> Coords(25301, 892641))

HARDCODED_MESSIER_CATALOG ==
  (<<"M", "1">> :> Coords(55756, 220145)) @@
  (<<"M", "3", "1">> :> Coords(7122, 412689)) @@
  (<<"M", "4", "2">> :> Coords(55883, -53895)) @@
  (<<"M", "4", "5">> :> Coords(37833, 241167)) @@
  (<<"M", "5", "1">> :> Coords(134997, 471950))

SOLAR_SYSTEM_OBJECTS ==
  { <<"s", "u", "n">>,
    <<"m", "o", "o", "n">>,
    <<"m", "e", "r", "c", "u", "r", "y">>,
    <<"v", "e", "n", "u", "s">>,
    <<"e", "a", "r", "t", "h">>,
    <<"m", "a", "r", "s">>,
    <<"j", "u", "p", "i", "t", "e", "r">>,
    <<"s", "a", "t", "u", "r", "n">>,
    <<"u", "r", "a", "n", "u", "s">>,
    <<"n", "e", "p", "t", "u", "n", "e">>,
    <<"p", "l", "u", "t", "o">> }

(* The all-lowercase property names every object inherits from             *)
(* Object.prototype: SOLAR_SYSTEM_OBJECTS[name] is truthy for them too.    *)
ObjectPrototypeKeys ==
  { <<"c", "o", "n", "s", "t", "r", "u", "c", "t", "o", "r">>,
    <<"_", "_", "p", "r", "o", "t", "o", "_", "_">> }

EmptyMap == [x \in {} |-> NoText]

MapSet(m, key, val) ==
  [x \in DOMAIN m \cup {key} |-> IF x = key THEN val ELSE m[x]]

MapHas(m, key) == key \in DOMAIN m

(* Object.entries(table).forEach(([name, coords]) =>                       *)
(*   CATALOG.set(name.toLowerCase(), coords))                              *)
SetAllLowercased(m, table) ==
  [x \in DOMAIN m \cup {toLowerCase(n) : n \in DOMAIN table} |->
     IF \E n \in DOMAIN table : toLowerCase(n) = x
     THEN table[CHOOSE n \in DOMAIN table : toLowerCase(n) = x]
     ELSE m[x]]

(***************************************************************************)
(* Catalog files                                                           *)
(***************************************************************************)
(* One data line of a catalog file under its header.  wellFormed is FALSE  *)
(* for a line the CSV parser rejects (wrong number of fields, an open      *)
(* quote); the line splitter of the OpenNGC branch reads such a line too.  *)
BlankRecord ==
  [wellFormed |-> TRUE,
   Name |-> <<>>, name |-> <<>>, id |-> <<>>, ID |-> <<>>,
   Type |-> <<>>, type |-> <<>>, M |-> <<>>,
   CommonNames |-> <<>>, common_name |-> <<>>, commonName |-> <<>>,
   common_name_sp |-> <<>>,
   RA |-> NoColumn, Dec |-> NoColumn,
   ra_hours |-> NoColumn, dec_degrees |-> NoColumn,
   proper |-> <<>>, ProperName |-> <<>>, alt_name |-> <<>>,
   BayerFlamsteed |-> <<>>, bf |-> <<>>, hip |-> <<>>, hd |-> <<>>,
   con |-> <<>>, mag |-> NoColumn, ra |-> NoColumn, dec |-> NoColumn]

SampleRow(name, ra4, dec4, common, type) ==
  [BlankRecord EXCEPT !.name = name,
                      !.ra_hours = <<Tok(ra4 * (Unit \div 10000))>>,
                      !.dec_degrees = <<Tok(dec4 * (Unit \div 10000))>>,
                      !.common_name = common,
                      !.type = type]

(* The sample star file with one digit of the first right ascension wrong. *)
sampleStarCsvContent_Misprinted ==
  << SampleRow(<<"S", "i", "r", "i", "u", "s">>, 67552, -167161, <<>>, <<>>),
     SampleRow(<<"C", "a", "n", "o", "p", "u", "s">>, 63992, -526956, <<>>, <<>>) >>

sampleStarCsvContent ==
  << SampleRow(<<"S", "i", "r", "i", "u", "s">>, 67525, -167161, <<>>, <<>>),
     SampleRow(<<"C", "a", "n", "o", "p", "u", "s">>, 63992, -526956, <<>>, <<>>),
     SampleRow(<<"A", "r", "c", "t", "u", "r", "u", "s">>, 142612, 191822, <<>>, <<>>),
     SampleRow(<<"V", "e", "g", "a">>, 186157, 387836, <<>>, <<>>),
     SampleRow(<<"C", "a", "p", "e", "l", "l", "a">>, 52778, 459981, <<>>, <<>>),
     SampleRow(<<"R", "i", "g", "e", "l">>, 52422, -82017, <<>>, <<>>),
     SampleRow(<<"P", "r", "o", "c", "y", "o", "n">>, 76550, 52242, <<>>, <<>>),
     SampleRow(<<"B", "e", "t", "e", "l", "g", "e", "u", "s", "e">>, 59194, 74071, <<>>, <<>>),
     SampleRow(<<"A", "c", "h", "e", "r", "n", "a", "r">>, 16285, -572367, <<>>, <<>>),
     SampleRow(<<"P", "o", "l", "a", "r", "i", "s">>, 25301, 892641, <<>>, <<>>) >>

sampleDsoCsvContent ==
  << SampleRow(<<"M", "1">>, 55756, 220145, <<"C", "r", "a", "b", " ", "N", "e", "b", "u", "l", "a">>, <<"N", "e", "b", "u", "l", "a">>),
     SampleRow(<<"M", "3", "1">>, 7122, 412689, <<"A", "n", "d", "r", "o", "m", "e", "d", "a", " ", "G", "a", "l", "a", "x", "y">>, <<"G", "a", "l", "a", "x", "y">>),
     SampleRow(<<"M", "4", "2">>, 55883, -53895, <<"O", "r", "i", "o", "n", " ", "N", "e", "b", "u", "l", "a">>, <<"N", "e", "b", "u", "l", "a">>),
     SampleRow(<<"M", "4", "5">>, 37833, 241167, <<"P", "l", "e", "i", "a", "d", "e", "s">>, <<"O", "p", "e", "n", " ", "C", "l", "u", "s", "t", "e", "r">>),
     SampleRow(<<"M", "5", "1">>, 134997, 471950, <<"W", "h", "i", "r", "l", "p", "o", "o", "l", " ", "G", "a", "l", "a", "x", "y">>, <<"G", "a", "l", "a", "x", "y">>) >>

NoFile == [exists |-> FALSE, rows |-> <<>>]
File(rows) == [exists |-> TRUE, rows |-> rows]

f_hygdata_v41 == <<"h", "y", "g", "d", "a", "t", "a", "_", "v", "4", "1", ".", "c", "s", "v">>
f_stars == <<"s", "t", "a", "r", "s", ".", "c", "s", "v">>
f_bright_stars == <<"b", "r", "i", "g", "h", "t", "_", "s", "t", "a", "r", "s", ".", "c", "s", "v">>
f_sample_stars == <<"s", "a", "m", "p", "l", "e", "_", "s", "t", "a", "r", "s", ".", "c", "s", "v">>
f_ngc == <<"n", "g", "c", ".", "c", "s", "v">>
f_messier == <<"m", "e", "s", "s", "i", "e", "r", ".", "c", "s", "v">>
f_dso == <<"d", "s", "o", ".", "c", "s", "v">>
f_sample_dso == <<"s", "a", "m", "p", "l", "e", "_", "d", "s", "o", ".", "c", "s", "v">>

starCatalogFiles == <<f_hygdata_v41, f_stars, f_bright_stars, f_sample_stars>>
dsoCatalogFiles == <<f_ngc, f_messier, f_dso, f_sample_dso>>

endsWith(s, p) ==
  Len(s) >= Len(p) /\ SubSeq(s, Len(s) - Len(p) + 1, Len(s)) = p

includes(s, p) ==
  \E i \in 1..(Len(s) + 1) :
    i + Len(p) - 1 <= Len(s) /\ SubSeq(s, i, i + Len(p) - 1) = p

(* parse(fileContent, {columns: true, ...}): the records, or a thrown      *)
(* error when a line is not well formed.                                   *)
csvParseThrows(rows) == \E i \in 1..Len(rows) : ~rows[i].wellFormed

(***************************************************************************)
(* Ingestion.  A catalog store is a record of the three module-level maps  *)
(* STAR_CATALOG, DSO_CATALOG and COMMON_NAMES.                             *)
(***************************************************************************)
Entry(ra, dec, commonName, type) ==
  [rightAscension |-> ra, declination |-> dec,
   commonName |-> commonName, type |-> type]

truthy(field) == field # <<>> /\ field # NoColumn

(* record.RA, "HH:MM:SS", split at the colons: three parts that all parse, *)
(* summed as they are, else undefined.                                     *)
sexagesimalRa(field) ==
  IF truthy(field) /\ Len(field) = 3
  THEN LET hours   == parseFloatPart(field[1])
           minutes == parseFloatPart(field[2])
           seconds == parseFloatPart(field[3])
       IN  IF ~isNaN(hours) /\ ~isNaN(minutes) /\ ~isNaN(seconds)
           THEN Plus(Plus(hours, DivBy(minutes, 60)), DivBy(seconds, 3600))
           ELSE undefined
  ELSE undefined

(* record.Dec, "+-DD:MM:SS", split at the colons: three parts that all     *)
(* parse, else undefined.  The sign is that of the parsed first part.      *)
sexagesimal(field) ==
  IF truthy(field) /\ Len(field) = 3
  THEN LET first   == parseFloatPart(field[1])
           minutes == parseFloatPart(field[2])
           seconds == parseFloatPart(field[3])
           sign    == IF LessThan(first, 0) THEN -1 ELSE 1
       IN  IF ~isNaN(first) /\ ~isNaN(minutes) /\ ~isNaN(seconds)
           THEN Times(Plus(Plus(MathAbs(first), DivBy(minutes, 60)),
                           DivBy(seconds, 3600)), sign)
           ELSE undefined
  ELSE undefined

s_NGC == <<"N", "G", "C">>
s_IC == <<"I", "C">>
s_M == <<"M">>

(* The name fix with the NGC pattern only.                                 *)
fixLeadingZeros_NgcOnly(name) ==
  LET ngcMatch == matchZeroPadded(name, s_NGC)
  IN  IF ngcMatch # <<>> THEN s_NGC \o ngcMatch ELSE name

(* NGC0001 -> NGC1, IC0001 -> IC1 *)
fixLeadingZeros(name) ==
  LET ngcMatch == matchZeroPadded(name, s_NGC)
      name1    == IF ngcMatch # <<>> THEN s_NGC \o ngcMatch ELSE name
      icMatch  == matchZeroPadded(name1, s_IC)
  IN  IF icMatch # <<>> THEN s_IC \o icMatch ELSE name1

(* The loop body with the Messier key built from record.M as written.      *)
processOpenNgcRecord_MAsWritten(cat, record) ==
  IF ~truthy(record.Name) THEN cat
  ELSE
    LET name       == fixLeadingZeros(record.Name)
        type       == record.Type
        commonName == record.CommonNames
        raHours    == sexagesimalRa(record.RA)
        decDegrees == sexagesimal(record.Dec)
        entry      == Entry(raHours, decDegrees, commonName, type)
        dso1       == MapSet(cat.DSO_CATALOG, toLowerCase(name), entry)
        dso2       == IF record.M # <<>>
                      THEN MapSet(dso1, toLowerCase(s_M \o record.M), entry)
                      ELSE dso1
        names      == IF commonName # <<>>
                      THEN MapSet(cat.COMMON_NAMES, toLowerCase(commonName),
                                  toLowerCase(name))
                      ELSE cat.COMMON_NAMES
    IN  IF raHours.k # "undef" /\ decDegrees.k # "undef"
        THEN [cat EXCEPT !.DSO_CATALOG = dso2, !.COMMON_NAMES = names]
        ELSE cat

(* The body of the loop of the OpenNGC branch of loadDSOCatalog.           *)
processOpenNgcRecord(cat, record) ==
  IF ~truthy(record.Name) THEN cat
  ELSE
    LET name       == fixLeadingZeros(record.Name)
        type       == record.Type
        commonName == record.CommonNames
        raHours    == sexagesimalRa(record.RA)
        decDegrees == sexagesimal(record.Dec)
        entry      == Entry(raHours, decDegrees, commonName, type)
        dso1       == MapSet(cat.DSO_CATALOG, toLowerCase(name), entry)
        dso2       == IF record.M # <<>>
                      THEN MapSet(dso1,
                                  toLowerCase(s_M \o parseIntToString(record.M)),
                                  entry)
                      ELSE dso1
        names      == IF commonName # <<>>
                      THEN MapSet(cat.COMMON_NAMES, toLowerCase(commonName),
                                  toLowerCase(name))
                      ELSE cat.COMMON_NAMES
    IN  IF raHours.k # "undef" /\ decDegrees.k # "undef"
        THEN [cat EXCEPT !.DSO_CATALOG = dso2, !.COMMON_NAMES = names]
        ELSE cat

(* record.ra_hours, else record.RA in degrees; record.dec_degrees, else    *)
(* record.Dec.                                                             *)
genericRa(record) ==
  IF record.ra_hours # NoColumn THEN parseFloat(record.ra_hours)
  ELSE IF record.RA # NoColumn THEN DivBy(parseFloat(record.RA), 15)
  ELSE undefined

genericDec(record) ==
  IF record.dec_degrees # NoColumn THEN parseFloat(record.dec_degrees)
  ELSE IF record.Dec # NoColumn THEN parseFloat(record.Dec)
  ELSE undefined

(* processDsoRecord with the alias stored before the row is checked.       *)
processDsoRecord_AliasBeforeCheck(cat, record) ==
  LET name       == OrElse(record.name, OrElse(record.Name,
                           OrElse(record.id, record.ID)))
      commonName == OrElse(record.common_name,
                           OrElse(record.commonName, record.common_name_sp))
      type       == OrElse(record.type, record.Type)
      raHours    == genericRa(record)
      decDegrees == genericDec(record)
      names      == IF commonName # <<>>
                    THEN MapSet(cat.COMMON_NAMES, toLowerCase(commonName),
                                toLowerCase(name))
                    ELSE cat.COMMON_NAMES
  IN  IF name = <<>> \/ isNaN(raHours) \/ isNaN(decDegrees)
      THEN [cat EXCEPT !.COMMON_NAMES = names]
      ELSE [cat EXCEPT
              !.DSO_CATALOG = MapSet(@, toLowerCase(name),
                                     Entry(raHours, decDegrees, commonName, type)),
              !.COMMON_NAMES = names]

(* The body of the loop of the generic branch of loadDSOCatalog.           *)
processDsoRecord(cat, record) ==
  LET name       == OrElse(record.name, OrElse(record.Name,
                           OrElse(record.id, record.ID)))
      commonName == OrElse(record.common_name,
                           OrElse(record.commonName, record.common_name_sp))
      type       == OrElse(record.type, record.Type)
      raHours    == genericRa(record)
      decDegrees == genericDec(record)
  IN  IF name = <<>> \/ isNaN(raHours) \/ isNaN(decDegrees)
      THEN cat
      ELSE [cat EXCEPT
              !.DSO_CATALOG = MapSet(@, toLowerCase(name),
                                     Entry(raHours, decDegrees, commonName, type)),
              !.COMMON_NAMES = IF commonName # <<>>
                               THEN MapSet(@, toLowerCase(commonName),
                                           toLowerCase(name))
                               ELSE @]

RECURSIVE loadOpenNgcRows(_, _)
loadOpenNgcRows(cat, rows) ==
  IF rows = <<>> THEN cat
  ELSE loadOpenNgcRows(processOpenNgcRecord(cat, Head(rows)), Tail(rows))

RECURSIVE loadDsoRows(_, _)
loadDsoRows(cat, rows) ==
  IF rows = <<>> THEN cat
  ELSE loadDsoRows(processDsoRecord(cat, Head(rows)), Tail(rows))

dsoFallback(cat) ==
  [cat EXCEPT !.DSO_CATALOG = SetAllLowercased(@, HARDCODED_MESSIER_CATALOG)]

s_ngc_csv == <<"n", "g", "c", ".", "c", "s", "v">>
s_NGC_csv == <<"N", "G", "C", ".", "c", "s", "v">>
s_hygdata_v == <<"h", "y", "g", "d", "a", "t", "a", "_", "v">>

isOpenNgcPath(filePath) ==
  endsWith(filePath, s_ngc_csv) \/ includes(filePath, s_NGC_csv)

(* The OpenNGC branch splits lines itself and throws nothing; every other   *)
(* file goes through the CSV parser, whose error the outer catch turns     *)
(* into the built-in table.                                                *)
loadDSOCatalog(cat, fs, filePath) ==
  IF ~fs[filePath].exists THEN dsoFallback(cat)
  ELSE IF isOpenNgcPath(filePath) THEN loadOpenNgcRows(cat, fs[filePath].rows)
  ELSE IF csvParseThrows(fs[filePath].rows) THEN dsoFallback(cat)
  ELSE loadDsoRows(cat, fs[filePath].rows)

(* Decimal digits of a natural number, and Number.prototype.toFixed(1).    *)
DigitChar == <<"0", "1", "2", "3", "4", "5", "6", "7", "8", "9">>

RECURSIVE natToString(_)
natToString(n) ==
  IF n < 10 THEN <<DigitChar[n + 1]>>
  ELSE natToString(n \div 10) \o <<DigitChar[(n % 10) + 1]>>

toFixed1(x) ==
  LET a      == IF x.v < 0 THEN -x.v ELSE x.v
      tenths == (a * 10 + (Unit \div 2)) \div Unit
      body   == natToString(tenths \div 10) \o <<".">> \o
                natToString(tenths % 10)
  IN  IF x.v < 0 /\ tenths > 0 THEN <<"-">> \o body ELSE body

s_HIP == <<"H", "I", "P", " ">>
s_HD == <<"H", "D", " ">>
s_StarMag == <<"S", "t", "a", "r", " ", "m", "a", "g", " ">>
s_in == <<" ", "i", "n", " ">>

(* mag < 6.0, the naked-eye limit, in units of 1/Unit magnitude.           *)
isBright(record) ==
  record.mag # NoColumn /\ LessThan(parseFloat(record.mag), 6 * Unit)

(* The on_record hook of the HYG branch: keep the record or drop it.       *)
hygKeeps(record) ==
  record.proper # <<>> \/ record.bf # <<>> \/ isBright(record)

(* The name the HYG branch stores a record under; <<>> when it has none.   *)
hygName(record) ==
  IF trim(record.proper) # <<>> THEN trim(record.proper)
  ELSE IF trim(record.bf) # <<>> THEN trim(record.bf)
  ELSE IF trim(record.hip) # <<>> THEN s_HIP \o trim(record.hip)
  ELSE IF trim(record.hd) # <<>> THEN s_HD \o trim(record.hd)
  ELSE IF isBright(record)
       THEN s_StarMag \o toFixed1(parseFloat(record.mag)) \o
            (IF trim(record.con) # <<>> THEN s_in \o trim(record.con) ELSE <<>>)
  ELSE <<>>

StarEntry(ra, dec) == Entry(ra, dec, NoText, NoText)

(* The body of the loop of the HYG branch of loadStarCatalog.              *)
processHygRecord(cat, record) ==
  LET name       == hygName(record)
      raHours    == IF truthy(record.ra) THEN parseFloat(record.ra) ELSE undefined
      decDegrees == IF truthy(record.dec) THEN parseFloat(record.dec) ELSE undefined
  IN  IF ~hygKeeps(record) \/ name = <<>> \/ isNaN(raHours) \/ isNaN(decDegrees)
      THEN cat
      ELSE [cat EXCEPT !.STAR_CATALOG =
              MapSet(@, toLowerCase(name), StarEntry(raHours, decDegrees))]

(* The body of the loop of the generic branch of loadStarCatalog.          *)
processStarRecord(cat, record) ==
  LET name       == OrElse(record.name, OrElse(record.proper, record.ProperName))
      altName    == OrElse(record.alt_name, record.BayerFlamsteed)
      raHours    == genericRa(record)
      decDegrees == genericDec(record)
      stars1     == MapSet(cat.STAR_CATALOG, toLowerCase(name),
                           StarEntry(raHours, decDegrees))
      stars2     == IF altName # <<>>
                    THEN MapSet(stars1, toLowerCase(altName),
                                StarEntry(raHours, decDegrees))
                    ELSE stars1
  IN  IF name = <<>> \/ isNaN(raHours) \/ isNaN(decDegrees)
      THEN cat
      ELSE [cat EXCEPT !.STAR_CATALOG = stars2]

RECURSIVE loadHygRows(_, _)
loadHygRows(cat, rows) ==
  IF rows = <<>> THEN cat
  ELSE loadHygRows(processHygRecord(cat, Head(rows)), Tail(rows))

RECURSIVE loadStarRows(_, _)
loadStarRows(cat, rows) ==
  IF rows = <<>> THEN cat
  ELSE loadStarRows(processStarRecord(cat, Head(rows)), Tail(rows))

starFallback(cat) ==
  [cat EXCEPT !.STAR_CATALOG = SetAllLowercased(@, HARDCODED_STAR_CATALOG)]

isHygPath(filePath) == includes(filePath, s_hygdata_v)

(* A parse error of the HYG branch is caught and the generic branch parses *)
(* the same content again, so a parse error ends in the outer catch.       *)
loadStarCatalog(cat, fs, filePath) ==
  IF ~fs[filePath].exists THEN starFallback(cat)
  ELSE IF csvParseThrows(fs[filePath].rows) THEN starFallback(cat)
  ELSE IF isHygPath(filePath) THEN loadHygRows(cat, fs[filePath].rows)
  ELSE loadStarRows(cat, fs[filePath].rows)

(***************************************************************************)
(* initializeCatalogs                                                      *)
(***************************************************************************)
(* The first file of the list that exists, as an index; 0 when none does.  *)
firstExisting(files, fs) ==
  IF \E i \in 1..Len(files) : fs[files[i]].exists
  THEN CHOOSE i \in 1..Len(files) :
         fs[files[i]].exists /\ \A j \in 1..(i - 1) : ~fs[files[j]].exists
  ELSE 0

(* The star half of initializeCatalogs without the built-in table behind   *)
(* a failed write of the sample file.                                      *)
initStars_NoHardcoded(cat, fs, writeOk) ==
  LET i == firstExisting(starCatalogFiles, fs)
  IN  IF i # 0
      THEN [cat |-> loadStarCatalog(cat, fs, starCatalogFiles[i]),
            fs |-> fs, source |-> "file", wrote |-> {}]
      ELSE IF writeOk
      THEN LET fs1 == [fs EXCEPT ![f_sample_stars] = File(sampleStarCsvContent)]
           IN  [cat |-> loadStarCatalog(cat, fs1, f_sample_stars),
                fs |-> fs1, source |-> "sample", wrote |-> {f_sample_stars}]
      ELSE [cat |-> cat, fs |-> fs, source |-> "hardcoded", wrote |-> {}]

(* The star half of initializeCatalogs.  writeOk tells whether             *)
(* fs.writeFileSync of the sample file succeeds.  The result carries the   *)
(* store, the file system and where the table came from.                   *)
initStars(cat, fs, writeOk) ==
  LET i == firstExisting(starCatalogFiles, fs)
  IN  IF i # 0
      THEN [cat |-> loadStarCatalog(cat, fs, starCatalogFiles[i]),
            fs |-> fs, source |-> "file", wrote |-> {}]
      ELSE IF writeOk
      THEN LET fs1 == [fs EXCEPT ![f_sample_stars] = File(sampleStarCsvContent)]
           IN  [cat |-> loadStarCatalog(cat, fs1, f_sample_stars),
                fs |-> fs1, source |-> "sample", wrote |-> {f_sample_stars}]
      ELSE [cat |-> starFallback(cat), fs |-> fs, source |-> "hardcoded",
            wrote |-> {}]

(* The deep-sky half of initializeCatalogs.                                *)
initDso(cat, fs, writeOk) ==
  LET i == firstExisting(dsoCatalogFiles, fs)
  IN  IF i # 0
      THEN [cat |-> loadDSOCatalog(cat, fs, dsoCatalogFiles[i]),
            fs |-> fs, source |-> "file", wrote |-> {}]
      ELSE IF writeOk
      THEN LET fs1 == [fs EXCEPT ![f_sample_dso] = File(sampleDsoCsvContent)]
           IN  [cat |-> loadDSOCatalog(cat, fs1, f_sample_dso),
                fs |-> fs1, source |-> "sample", wrote |-> {f_sample_dso}]
      ELSE [cat |-> dsoFallback(cat), fs |-> fs, source |-> "hardcoded",
            wrote |-> {}]

(***************************************************************************)
(* Name resolution                                                         *)
(***************************************************************************)
AstronomyBody ==
  { <<"S", "u", "n">>,
    <<"M", "o", "o", "n">>,
    <<"M", "e", "r", "c", "u", "r", "y">>,
    <<"V", "e", "n", "u", "s">>,
    <<"E", "a", "r", "t", "h">>,
    <<"M", "a", "r", "s">>,
    <<"J", "u", "p", "i", "t", "e", "r">>,
    <<"S", "a", "t", "u", "r", "n">>,
    <<"U", "r", "a", "n", "u", "s">>,
    <<"N", "e", "p", "t", "u", "n", "e">>,
    <<"P", "l", "u", "t", "o">>,
    <<"S", "S", "B">>,
    <<"E", "M", "B">>,
    <<"S", "t", "a", "r", "1">>,
    <<"S", "t", "a", "r", "2">>,
    <<"S", "t", "a", "r", "3">>,
    <<"S", "t", "a", "r", "4">>,
    <<"S", "t", "a", "r", "5">>,
    <<"S", "t", "a", "r", "6">>,
    <<"S", "t", "a", "r", "7">>,
    <<"S", "t", "a", "r", "8">> }

capitalize(name) ==
  IF name = <<>> THEN <<>> ELSE <<UpperChar(name[1])>> \o Tail(name)

NoEntry == Entry(undefined, undefined, NoText, NoText)

(* What a query returns: an entry of a table (kind "entry", via the step   *)
(* that answered), a delegation to the ephemeris collaborator (kind        *)
(* "solar", with the body asked for), or a thrown error that carries the   *)
(* name it echoes (kind "error").                                          *)
Answer(kind, via, entry, text) ==
  [kind |-> kind, via |-> via, entry |-> entry, text |-> text]

(* SOLAR_SYSTEM_OBJECTS[name] is truthy.                                   *)
solarLookup(name) ==
  name \in SOLAR_SYSTEM_OBJECTS \/ name \in ObjectPrototypeKeys

s_sun == <<"s", "u", "n">>
s_moon == <<"m", "o", "o", "n">>

getSolarSystemCoordinates(name) ==
  IF name = s_sun \/ name = s_moon
  THEN Answer("solar", "solar", NoEntry, capitalize(name))
  ELSE IF capitalize(name) \in AstronomyBody \/ capitalize(name) \in ObjectPrototypeKeys
  THEN Answer("solar", "solar", NoEntry, capitalize(name))
  ELSE Answer("error", "solar", NoEntry, name)

(* The resolver with the deep-sky table consulted before the star table.   *)
getEquatorialCoordinates_DsoFirst(cat, objectName) ==
  LET normalizedName == toLowerCase(objectName)
  IN  IF solarLookup(normalizedName) THEN getSolarSystemCoordinates(normalizedName)
      ELSE IF MapHas(cat.COMMON_NAMES, normalizedName)
              /\ MapHas(cat.DSO_CATALOG, cat.COMMON_NAMES[normalizedName])
      THEN Answer("entry", "alias", cat.DSO_CATALOG[cat.COMMON_NAMES[normalizedName]], <<>>)
      ELSE IF MapHas(cat.DSO_CATALOG, normalizedName)
      THEN Answer("entry", "dso", cat.DSO_CATALOG[normalizedName], <<>>)
      ELSE IF MapHas(cat.STAR_CATALOG, normalizedName)
      THEN Answer("entry", "stars", cat.STAR_CATALOG[normalizedName], <<>>)
      ELSE Answer("error", "none", NoEntry, objectName)

(* The resolver looking the star up under the name as given.               *)
getEquatorialCoordinates_StarAsGiven(cat, objectName) ==
  LET normalizedName == toLowerCase(objectName)
  IN  IF solarLookup(normalizedName) THEN getSolarSystemCoordinates(normalizedName)
      ELSE IF MapHas(cat.COMMON_NAMES, normalizedName)
              /\ MapHas(cat.DSO_CATALOG, cat.COMMON_NAMES[normalizedName])
      THEN Answer("entry", "alias", cat.DSO_CATALOG[cat.COMMON_NAMES[normalizedName]], <<>>)
      ELSE IF MapHas(cat.STAR_CATALOG, objectName)
      THEN Answer("entry", "stars", cat.STAR_CATALOG[objectName], <<>>)
      ELSE IF MapHas(cat.DSO_CATALOG, normalizedName)
      THEN Answer("entry", "dso", cat.DSO_CATALOG[normalizedName], <<>>)
      ELSE Answer("error", "none", NoEntry, objectName)

(* The resolver with the star table consulted before the alias table.      *)
getEquatorialCoordinates_StarsBeforeAlias(cat, objectName) ==
  LET normalizedName == toLowerCase(objectName)
  IN  IF solarLookup(normalizedName) THEN getSolarSystemCoordinates(normalizedName)
      ELSE IF MapHas(cat.STAR_CATALOG, normalizedName)
      THEN Answer("entry", "stars", cat.STAR_CATALOG[normalizedName], <<>>)
      ELSE IF MapHas(cat.COMMON_NAMES, normalizedName)
              /\ MapHas(cat.DSO_CATALOG, cat.COMMON_NAMES[normalizedName])
      THEN Answer("entry", "alias", cat.DSO_CATALOG[cat.COMMON_NAMES[normalizedName]], <<>>)
      ELSE IF MapHas(cat.DSO_CATALOG, normalizedName)
      THEN Answer("entry", "dso", cat.DSO_CATALOG[normalizedName], <<>>)
      ELSE Answer("error", "none", NoEntry, objectName)

getEquatorialCoordinates(cat, objectName) ==
  LET normalizedName == toLowerCase(objectName)
  IN  IF solarLookup(normalizedName)
      THEN getSolarSystemCoordinates(normalizedName)
      ELSE IF MapHas(cat.COMMON_NAMES, normalizedName)
              /\ MapHas(cat.DSO_CATALOG, cat.COMMON_NAMES[normalizedName])
      THEN Answer("entry", "alias",
                  cat.DSO_CATALOG[cat.COMMON_NAMES[normalizedName]], <<>>)
      ELSE IF MapHas(cat.STAR_CATALOG, normalizedName)
      THEN Answer("entry", "stars", cat.STAR_CATALOG[normalizedName], <<>>)
      ELSE IF MapHas(cat.DSO_CATALOG, normalizedName)
      THEN Answer("entry", "dso", cat.DSO_CATALOG[normalizedName], <<>>)
      ELSE Answer("error", "none", NoEntry, objectName)

(***************************************************************************)
(* Horizontal coordinates and visibility.  Latitudes and declinations are  *)
(* in units of 1/Unit degree.  What the ephemeris library (the             *)
(* astronomy-engine package) computes is not modelled; a result carries    *)
(* the calls made to it.                                                   *)
(***************************************************************************)
NoAnswer == Answer("none", "none", NoEntry, <<>>)

(* The star slot Body.Star1 of the ephemeris library before any            *)
(* DefineStar call.                                                        *)
NoStar == <<undefined, undefined>>

RightAngle == 90 * Unit

Magnitude(n) == IF n < 0 THEN -n ELSE n

(* Math.abs(-Math.tan(latRad) * Math.tan(decRad)) compared with 1 where    *)
(* |latitude| + |declination| is exactly 90 degrees: the doubles the two   *)
(* tangents round to multiply to exactly 1 for 25 and 65 degrees.          *)
absCosHAtTangency ==
  (<<25 * Unit, 65 * Unit>> :> "equal") @@ (<<65 * Unit, 25 * Unit>> :> "equal")

(* Math.abs(cosH) > 1.  Away from tangency the product of the tangents is  *)
(* off 1 by far more than the rounding of the doubles.                     *)
absCosHAboveOne(latitude, declination) ==
  LET sum == Magnitude(latitude) + Magnitude(declination)
  IN  IF sum = RightAngle
      THEN absCosHAtTangency[<<Magnitude(latitude), Magnitude(declination)>>] = "above"
      ELSE sum > RightAngle

NoAltAz == [refraction |-> "none", calls |-> {}, coords |-> NoAnswer]

(* The Horizon call carries the refraction mode and the coordinates.       *)
convertToAltAz(coords, latitude) ==
  [refraction |-> "normal", calls |-> {"Observer", "Horizon"}, coords |-> coords]

Details(kind, neverSets, neverRises, isCircumpolar, calls, star) ==
  [kind |-> kind, neverSets |-> neverSets, neverRises |-> neverRises,
   isCircumpolar |-> isCircumpolar, calls |-> calls, Star1 |-> star]

NoDetails == Details("none", FALSE, FALSE, FALSE, {}, NoStar)

(* The table lookup of getObjectDetails: stars, deep-sky objects, then the *)
(* alias table.                                                            *)
detailsLookup(cat, normalizedName) ==
  IF MapHas(cat.STAR_CATALOG, normalizedName)
  THEN cat.STAR_CATALOG[normalizedName]
  ELSE IF MapHas(cat.DSO_CATALOG, normalizedName)
  THEN cat.DSO_CATALOG[normalizedName]
  ELSE IF MapHas(cat.COMMON_NAMES, normalizedName)
          /\ MapHas(cat.DSO_CATALOG, cat.COMMON_NAMES[normalizedName])
  THEN cat.DSO_CATALOG[cat.COMMON_NAMES[normalizedName]]
  ELSE NoEntry

(* The library calls of the solar-system part of getObjectDetails: the     *)
(* three searches, distance and illumination except for the Sun and the    *)
(* Earth, and the moon phases for the Moon.                                *)
solarDetailsCalls(body) ==
  {"Observer", "SearchRiseSet", "SearchHourAngle"}
    \cup (IF body \in {<<"S", "u", "n">>, <<"E", "a", "r", "t", "h">>} THEN {}
          ELSE IF body = <<"M", "o", "o", "n">>
          THEN {"GeoMoon", "Illumination", "SearchMoonPhase"}
          ELSE {"HelioVector", "Illumination"})

(* getObjectDetails with neverRises set for the southern case only.        *)
getObjectDetails_NeverRisesSouthOnly(cat, objectName, latitude, star) ==
  LET normalizedName      == toLowerCase(objectName)
      isSolarSystemObject == solarLookup(normalizedName)
      equatorialCoords    == detailsLookup(cat, normalizedName)
      declination         == equatorialCoords.declination.v
      alwaysUp            == declination > 0 /\ latitude > 0
      alwaysDown          == declination < 0 /\ latitude < 0
  IN  IF equatorialCoords # NoEntry /\ ~isSolarSystemObject
      THEN IF absCosHAboveOne(latitude, declination)
           THEN Details("nonCrossing", alwaysUp, alwaysDown, TRUE, {"Observer"}, star)
           ELSE Details("riseSet", FALSE, FALSE, FALSE,
                        {"Observer", "DefineStar", "SearchRiseSet", "SearchHourAngle"},
                        <<equatorialCoords.rightAscension, equatorialCoords.declination>>)
      ELSE IF ~isSolarSystemObject
      THEN Details("null", FALSE, FALSE, FALSE, {"Observer"}, star)
      ELSE IF capitalize(normalizedName) \in AstronomyBody
      THEN Details("solar", FALSE, FALSE, FALSE,
                   solarDetailsCalls(capitalize(normalizedName)), star)
      ELSE Details("null", FALSE, FALSE, FALSE, {"Observer"}, star)

(* getObjectDetails(objectName, date, observer).  star is the content of   *)
(* the slot Body.Star1 at the call; the result carries its content at the  *)
(* return.  For a catalog object that crosses the horizon the slot is      *)
(* redefined and the three searches run on it.                             *)
getObjectDetails(cat, objectName, latitude, star) ==
  LET normalizedName      == toLowerCase(objectName)
      isSolarSystemObject == solarLookup(normalizedName)
      equatorialCoords    == detailsLookup(cat, normalizedName)
      declination         == equatorialCoords.declination.v
      alwaysUp            == declination > 0 /\ latitude > 0
      alwaysDown          == declination < 0 /\ latitude < 0
  IN  IF equatorialCoords # NoEntry /\ ~isSolarSystemObject
      THEN IF absCosHAboveOne(latitude, declination)
           THEN Details("nonCrossing", alwaysUp,
                        alwaysDown \/ (~alwaysUp /\ absCosHAboveOne(latitude, declination)),
                        absCosHAboveOne(latitude, declination), {"Observer"}, star)
           ELSE Details("riseSet", FALSE, FALSE, FALSE,
                        {"Observer", "DefineStar", "SearchRiseSet", "SearchHourAngle"},
                        <<equatorialCoords.rightAscension, equatorialCoords.declination>>)
      ELSE IF ~isSolarSystemObject
      THEN Details("null", FALSE, FALSE, FALSE, {"Observer"}, star)
      ELSE IF capitalize(normalizedName) \in AstronomyBody
      THEN Details("solar", FALSE, FALSE, FALSE,
                   solarDetailsCalls(capitalize(normalizedName)), star)
      ELSE Details("null", FALSE, FALSE, FALSE, {"Observer"}, star)

(***************************************************************************)
(* The catalog files the model draws the data directory from.  Numbers are *)
(* in units of 1/Unit: Tok(3411000) is the text "18.95".                   *)
(***************************************************************************)
MaxRows == 2
MaxStarRowsBesideDso == 1

(* stars.csv, header name,alt_name,ra_hours,dec_degrees *)
rowPleiades ==
  [BlankRecord EXCEPT !.name = <<"P", "l", "e", "i", "a", "d", "e", "s">>, !.alt_name = <<"M", "4", "5">>,
                      !.ra_hours = <<Tok(682200)>>, !.dec_degrees = <<Tok(4338000)>>]
rowSun ==
  [BlankRecord EXCEPT !.name = <<"S", "u", "n">>, !.alt_name = <<"S", "o", "l">>,
                      !.ra_hours = <<Tok(3411000)>>, !.dec_degrees = <<Tok(-4140000)>>]
rowTornStar ==
  [BlankRecord EXCEPT !.wellFormed = FALSE, !.name = <<"A", "l", "t", "a", "i", "r">>]

StarRowPool == {rowPleiades, rowSun, rowTornStar}

(* hygdata_v41.csv, header id,hip,hd,hr,gl,bf,proper,ra,dec,dist,...,mag,...,con *)
rowHygVega ==
  [BlankRecord EXCEPT !.proper = <<"V", "e", "g", "a">>, !.hip = <<"9", "1">>,
                      !.hd = <<"1", "7">>, !.mag = <<Tok(0)>>,
                      !.ra = <<Tok(3350826)>>, !.dec = <<Tok(6981048)>>]
rowHygNumbered ==
  [BlankRecord EXCEPT !.hip = <<"7", "1">>, !.hd = <<"4", "2">>, !.mag = <<Tok(5 * Unit)>>,
                      !.con = <<"L", "y", "r">>,
                      !.ra = <<Tok(18 * Unit)>>, !.dec = <<Tok(30 * Unit)>>]
rowHygFaint ==
  [BlankRecord EXCEPT !.hd = <<"9", "9">>, !.mag = <<Tok(7 * Unit)>>,
                      !.ra = <<Tok(5 * Unit)>>, !.dec = <<Tok(10 * Unit)>>]

HygRowPool == {rowHygVega, rowHygNumbered, rowHygFaint}

(* ngc.csv, header Name;Type;RA;Dec;M;Common names *)
rowAndromeda ==
  [BlankRecord EXCEPT !.Name = <<"N", "G", "C", "0", "2", "2", "4">>, !.Type = <<"G">>,
                      !.RA = <<Tok(0), Tok(7560000), Tok(7974000)>>,
                      !.Dec = <<Tok(7380000), Tok(2880000), Tok(1620000)>>,
                      !.M = <<"0", "3", "1">>,
                      !.CommonNames = <<"A", "n", "d", "r", "o", "m", "e", "d", "a", " ", "G", "a", "l", "a", "x", "y">>]
rowIC3 ==
  [BlankRecord EXCEPT !.Name = <<"I", "C", "0", "0", "0", "3">>, !.Type = <<"*">>,
                      !.RA = <<Tok(4500000), Tok(0), Tok(0)>>,
                      !.Dec = <<Tok(-17100000), Tok(5400000), Tok(0)>>,
                      !.CommonNames = <<"S", "i", "r", "i", "u", "s">>]
rowGhost ==
  [BlankRecord EXCEPT !.Name = <<"N", "G", "C", "0", "0", "0", "7">>,
                      !.RA = <<Junk>>,
                      !.Dec = <<Tok(-5220000), Tok(9720000), Tok(10620000)>>,
                      !.M = <<"7">>,
                      !.CommonNames = <<"G", "h", "o", "s", "t">>]

rowNGC45 ==
  [BlankRecord EXCEPT !.Name = <<"N", "G", "C", "0", "0", "4", "5">>, !.Type = <<"G">>,
                      !.RA = <<Tok(0), Tok(2520000), Tok(720000)>>,
                      !.Dec = <<NegZeroTok, Tok(5400000), Tok(0)>>]

NgcRowPool == {rowAndromeda, rowIC3, rowGhost, rowNGC45}

(* dso.csv, header name,ra_hours,dec_degrees,common_name,type *)
rowM31 ==
  [BlankRecord EXCEPT !.name = <<"M", "3", "1">>,
                      !.ra_hours = <<Tok(126000)>>, !.dec_degrees = <<Tok(7434000)>>,
                      !.common_name = <<"A", "n", "d", "r", "o", "m", "e", "d", "a", " ", "G", "a", "l", "a", "x", "y">>,
                      !.type = <<"G", "a", "l", "a", "x", "y">>]
rowNoDec ==
  [BlankRecord EXCEPT !.name = <<"M", "1", "3">>,
                      !.ra_hours = <<Tok(3006000)>>, !.dec_degrees = <<>>,
                      !.common_name = <<"G", "h", "o", "s", "t">>]
rowTornDso ==
  [BlankRecord EXCEPT !.wellFormed = FALSE, !.name = <<"M", "8", "7">>]

rowNGC7 ==
  [BlankRecord EXCEPT !.name = <<"N", "G", "C", "0", "0", "0", "7">>,
                      !.ra_hours = <<Tok(24000)>>, !.dec_degrees = <<Tok(-5382000)>>,
                      !.type = <<"G", "a", "l", "a", "x", "y">>]

DsoRowPool == {rowM31, rowNoDec, rowTornDso, rowNGC7}

RECURSIVE SeqsUpTo(_, _)
SeqsUpTo(S, n) ==
  IF n = 0 THEN {<<>>}
  ELSE LET shorter == SeqsUpTo(S, n - 1)
       IN  shorter \cup {<<x>> \o s : x \in S, s \in {t \in shorter : Len(t) = n - 1}}

AllFiles ==
  {starCatalogFiles[i] : i \in 1..Len(starCatalogFiles)} \cup
  {dsoCatalogFiles[i] : i \in 1..Len(dsoCatalogFiles)}

EmptyDir == [f \in AllFiles |-> NoFile]

(* The data directories a process may start in: at most one star file      *)
(* (stars.csv) and at most one deep-sky file (ngc.csv or dso.csv); beside  *)
(* a deep-sky file the star file is a short one.                           *)
StarSides ==
  {EmptyDir} \cup
  {[EmptyDir EXCEPT ![f_stars] = File(rows)] : rows \in SeqsUpTo(StarRowPool, MaxRows)} \cup
  {[EmptyDir EXCEPT ![f_hygdata_v41] = File(rows)] :
     rows \in SeqsUpTo(HygRowPool, MaxRows)}

StarSidesBesideDso ==
  {EmptyDir} \cup
  {[EmptyDir EXCEPT ![f_stars] = File(rows)] :
     rows \in SeqsUpTo(StarRowPool, MaxStarRowsBesideDso)}

InitialDirs ==
  StarSides \cup
  {[d EXCEPT ![f_ngc] = File(rows)] :
     d \in StarSidesBesideDso, rows \in SeqsUpTo(NgcRowPool, MaxRows)} \cup
  {[d EXCEPT ![f_dso] = File(rows)] :
     d \in StarSidesBesideDso, rows \in SeqsUpTo(DsoRowPool, MaxRows)}

(* The names a caller asks for. *)
QueryNames ==
  { <<"S", "i", "r", "i", "u", "s">>,
    <<" ", "s", "i", "r", "i", "u", "s", " ">>,
    <<"M", "4", "5">>,
    <<"P", "l", "e", "i", "a", "d", "e", "s">>,
    <<"A", "n", "d", "r", "o", "m", "e", "d", "a", " ", "G", "a", "l", "a", "x", "y">>,
    <<"M", "3", "1">>,
    <<"I", "C", "3">>,
    <<"G", "h", "o", "s", "t">>,
    <<"S", "u", "n">>,
    <<"S", "o", "l">>,
    <<"C", "o", "n", "s", "t", "r", "u", "c", "t", "o", "r">>,
    <<"M", "3">>,
    <<"N", "o", "w", "h", "e", "r", "e">> }

(* The data directory of the visibility queries: a generic stars.csv and   *)
(* dso.csv.  Sirius, Polaris and Achernar carry the coordinates of the     *)
(* built-in table; the star at declination 65 grazes the horizon of        *)
(* latitude 25.                                                            *)
rowSirius ==
  [BlankRecord EXCEPT !.name = <<"S", "i", "r", "i", "u", "s">>,
                      !.ra_hours = <<Tok(1215450)>>, !.dec_degrees = <<Tok(-3008898)>>]
rowPolaris ==
  [BlankRecord EXCEPT !.name = <<"P", "o", "l", "a", "r", "i", "s">>,
                      !.ra_hours = <<Tok(455418)>>, !.dec_degrees = <<Tok(16067538)>>]
rowAchernar ==
  [BlankRecord EXCEPT !.name = <<"A", "c", "h", "e", "r", "n", "a", "r">>,
                      !.ra_hours = <<Tok(293130)>>, !.dec_degrees = <<Tok(-10302606)>>]
rowGrazer ==
  [BlankRecord EXCEPT !.name = <<"G", "r", "a", "z", "e", "r">>,
                      !.ra_hours = <<Tok(12 * Unit)>>, !.dec_degrees = <<Tok(65 * Unit)>>]

QueryDirs ==
  {[EmptyDir EXCEPT ![f_stars] = File(<<rowSirius, rowPolaris, rowAchernar, rowGrazer>>),
                    ![f_dso] = File(<<rowM31>>)]}

ToolNames ==
  { <<"S", "i", "r", "i", "u", "s">>,
    <<"P", "o", "l", "a", "r", "i", "s">>,
    <<"A", "c", "h", "e", "r", "n", "a", "r">>,
    <<"G", "r", "a", "z", "e", "r">>,
    <<"S", "u", "n">>,
    <<"N", "o", "w", "h", "e", "r", "e">> }

(* OBSERVER_CONFIG.latitude: 49.2827 as shipped, to be replaced by the     *)
(* user's own.                                                             *)
ConfiguredLatitude == 492827 * (Unit \div 10000)

Latitudes == {ConfiguredLatitude, 25 * Unit, -35 * Unit}

(***************************************************************************)
(* The getObjectDetails that computes rise, transit and set of a catalog   *)
(* object from sidereal time and the hour angle.  Instants are whole hours *)
(* counted from 2000-01-01T12:00:00Z; angles are in units of 1/Unit of an  *)
(* hour of rotation, Unit * 24 to the turn, so that a right ascension in   *)
(* hours times 15 and an hour angle in degrees over 15 keep their number.  *)
(***************************************************************************)
FullTurn == 24 * Unit

HalfTurn == 12 * Unit

(* 280.46061837 degrees.                                                   *)
GmstAtJ2000 == 3365527

(* 360.98564736629 degrees a day, by the hour.                             *)
GmstRatePerHour == 180493

HoursPerDay == 24

(* The remainder operator of the language: the sign of the dividend.       *)
jsRemainder(a, n) == IF a >= 0 THEN a % n ELSE -((-a) % n)

(* Math.floor(x % 60) for the quotient x = num / den, den > 0.             *)
floorOfRemainder60(num, den) ==
  IF num >= 0
  THEN (num \div den) % 60
  ELSE LET ceilOfMinusX == -(num \div den)
           wholeTurns   == ((-num) \div den) \div 60
       IN  -(ceilOfMinusX - 60 * wholeTurns)

(* Math.acos(cosH) * 180 / Math.PI for cosH = -tan(lat) * tan(dec), at the *)
(* latitudes and declinations of the catalogs of the model.                *)
hourAngleDeg(latitude, declination) ==
  LET known == (<<ConfiguredLatitude, -3008898>>  :> 834929)
            @@ (<<25 * Unit, -3008898>>   :> 983397)
            @@ (<<25 * Unit, -10302606>>  :> 522786)
            @@ (<<25 * Unit, 65 * Unit>>  :> HalfTurn)
            @@ (<<-35 * Unit, -3008898>>  :> 1225670)
  IN  known[<<latitude, declination>>]

(* daysFromJ2000 and gmst, by the hour.                                    *)
gmstAt(date) == GmstAtJ2000 + GmstRatePerHour * date

(* startOfDay: the date with its local hours, minutes, seconds zeroed, for *)
(* a process whose clock is timeZone hours east of Greenwich.              *)
startOfDayOf(date, timeZone) ==
  date - ((date + (HoursPerDay \div 2) + timeZone) % HoursPerDay)

(* lst0h.  daysFromJ2000 % 1 is the part of a day since the last noon, or  *)
(* until the next when the date is before the epoch.                       *)
lst0hOf(date, longitude) ==
  jsRemainder(gmstAt(date) - jsRemainder(date, HoursPerDay) * GmstRatePerHour
                + longitude, FullTurn)

ha0hOf(lst0h, raDegrees) == jsRemainder(lst0h - raDegrees + FullTurn, FullTurn)

(* transitHours counted from the hour angle itself.                        *)
transitHoursOf_FromHourAngle(ha0h) == jsRemainder(ha0h, FullTurn)

transitHoursOf(ha0h) == jsRemainder(FullTurn - ha0h, FullTurn)

(* riseHours without the added day.                                        *)
riseHoursOf_NoAddedDay(transitHours, arc) ==
  jsRemainder(transitHours - arc, FullTurn)

riseHoursOf(transitHours, arc) ==
  jsRemainder(transitHours - arc + FullTurn, FullTurn)

setHoursOf(transitHours, arc) == jsRemainder(transitHours + arc, FullTurn)

(* new Date(startOfDay) and setHours(floor(h), floor((h * 60) % 60),       *)
(* floor((h * 3600) % 60)), in seconds.                                    *)
setHoursOn(startOfDay, hours) ==
  startOfDay * 3600
    + (hours \div Unit) * 3600
    + floorOfRemainder60(hours, Unit \div 60) * 60
    + floorOfRemainder60(hours, Unit \div 3600)

NoRiseSet ==
  [kind |-> "none", objectName |-> <<>>, date |-> 0, timeZone |-> 0,
   raDegrees |-> 0, gmst |-> 0, lst |-> 0, lst0h |-> 0, ha0h |-> 0,
   hourAngleDeg |-> 0, transitHours |-> 0, riseHours |-> 0, setHours |-> 0,
   startOfDay |-> 0, riseTime |-> 0, transitTime |-> 0, setTime |-> 0,
   neverSets |-> FALSE, neverRises |-> FALSE, isCircumpolar |-> FALSE]

(* getObjectDetails(objectName, date, observer), with the locals of the    *)
(* computation beside the fields it returns.                               *)
getObjectDetailsByHourAngle(cat, objectName, date, timeZone, latitude, longitude) ==
  LET normalizedName      == toLowerCase(objectName)
      isSolarSystemObject == solarLookup(normalizedName)
      equatorialCoords    == detailsLookup(cat, normalizedName)
      declination         == equatorialCoords.declination.v
      raDegrees           == equatorialCoords.rightAscension.v
      gmst                == gmstAt(date)
      lst                 == jsRemainder(gmst + longitude, FullTurn)
      alwaysUp            == declination > 0 /\ latitude > 0
      alwaysDown          == declination < 0 /\ latitude < 0
      arc                 == hourAngleDeg(latitude, declination)
      startOfDay          == startOfDayOf(date, timeZone)
      lst0h               == lst0hOf(date, longitude)
      ha0h                == ha0hOf(lst0h, raDegrees)
      transitHours        == transitHoursOf(ha0h)
      riseHours           == riseHoursOf(transitHours, arc)
      setHours            == setHoursOf(transitHours, arc)
      asked               == [NoRiseSet EXCEPT !.objectName = objectName,
                                               !.date = date, !.timeZone = timeZone]
  IN  IF isSolarSystemObject
      THEN [asked EXCEPT !.kind = IF capitalize(normalizedName) \in AstronomyBody
                                  THEN "solar" ELSE "null"]
      ELSE IF equatorialCoords = NoEntry
      THEN [asked EXCEPT !.kind = "null"]
      ELSE IF absCosHAboveOne(latitude, declination)
      THEN [asked EXCEPT !.kind = "nonCrossing",
                         !.raDegrees = raDegrees, !.gmst = gmst, !.lst = lst,
                         !.neverSets = alwaysUp,
                         !.neverRises = alwaysDown
                                          \/ (~alwaysUp /\ absCosHAboveOne(latitude, declination)),
                         !.isCircumpolar = absCosHAboveOne(latitude, declination)]
      ELSE [asked EXCEPT !.kind = "riseSet",
                         !.raDegrees = raDegrees, !.gmst = gmst, !.lst = lst,
                         !.lst0h = lst0h, !.ha0h = ha0h, !.hourAngleDeg = arc,
                         !.transitHours = transitHours, !.riseHours = riseHours,
                         !.setHours = setHours, !.startOfDay = startOfDay,
                         !.riseTime = setHoursOn(startOfDay, riseHours),
                         !.transitTime = setHoursOn(startOfDay, transitHours),
                         !.setTime = setHoursOn(startOfDay, setHours)]

(***************************************************************************)
(* listCelestialObjects                                                    *)
(***************************************************************************)

(* The characters of the names of the model in the order of their code     *)
(* units, which Array.prototype.sort() compares.                           *)
CodeUnitOrder ==
  <<"\t", " ", "*", "+", ",", "-", ".",
    "0", "1", "2", "3", "4", "5", "6", "7", "8", "9", ":", ";",
    "A", "B", "C", "D", "E", "F", "G", "H", "I", "J", "K", "L", "M",
    "N", "O", "P", "Q", "R", "S", "T", "U", "V", "W", "X", "Y", "Z", "_",
    "a", "b", "c", "d", "e", "f", "g", "h", "i", "j", "k", "l", "m",
    "n", "o", "p", "q", "r", "s", "t", "u", "v", "w", "x", "y", "z">>

CodeUnitOf ==
  [c \in {CodeUnitOrder[i] : i \in 1..Len(CodeUnitOrder)} |->
     CHOOSE i \in 1..Len(CodeUnitOrder) : CodeUnitOrder[i] = c]

codeUnit(c) == CodeUnitOf[c]

RECURSIVE codeUnitLess(_, _)
codeUnitLess(a, b) ==
  IF b = <<>> THEN FALSE
  ELSE IF a = <<>> THEN TRUE
  ELSE IF a[1] = b[1] THEN codeUnitLess(Tail(a), Tail(b))
  ELSE codeUnit(a[1]) < codeUnit(b[1])

(* Array.from(names), in some order.                                       *)
RECURSIVE arrayFrom(_)
arrayFrom(names) ==
  IF names = {} THEN <<>>
  ELSE LET some == CHOOSE a \in names : TRUE
       IN  <<some>> \o arrayFrom(names \ {some})

(* names.sort() for names that differ from each other.                     *)
sortNames(names) == SortSeq(arrayFrom(names), codeUnitLess)

digitValue(c) == codeUnit(c) - codeUnit("0")

(* parseInt of a text of digits.                                           *)
RECURSIVE digitsValue(_)
digitsValue(ds) ==
  IF ds = <<>> THEN 0
  ELSE digitsValue(SubSeq(ds, 1, Len(ds) - 1)) * 10 + digitValue(ds[Len(ds)])

(* name.startsWith('m') && /^m\d+$/i.test(name)                            *)
isMessierKey(name) ==
  /\ Len(name) >= 2
  /\ name[1] = "m"
  /\ \A i \in 2..Len(name) : name[i] \in Digits

(* The comparison of the Messier sort: parseInt(a.substring(1)) -          *)
(* parseInt(b.substring(1)).  Names with one number keep the order of the  *)
(* table, which the tables of the model do not record: they are put in     *)
(* the order of their code units.                                          *)
messierLess(a, b) ==
  LET numA == digitsValue(Tail(a))
      numB == digitsValue(Tail(b))
  IN  numA < numB \/ (numA = numB /\ codeUnitLess(a, b))

sortMessier(names) == SortSeq(arrayFrom(names), messierLess)

(* Object.keys(SOLAR_SYSTEM_OBJECTS), in the order of the literal.         *)
SolarSystemObjectKeys ==
  << <<"s", "u", "n">>, <<"m", "o", "o", "n">>,
     <<"m", "e", "r", "c", "u", "r", "y">>, <<"v", "e", "n", "u", "s">>,
     <<"e", "a", "r", "t", "h">>, <<"m", "a", "r", "s">>,
     <<"j", "u", "p", "i", "t", "e", "r">>, <<"s", "a", "t", "u", "r", "n">>,
     <<"u", "r", "a", "n", "u", "s">>, <<"n", "e", "p", "t", "u", "n", "e">>,
     <<"p", "l", "u", "t", "o">> >>

Group(category, objects) == [category |-> category, objects |-> objects]

(* listCelestialObjects with the deep-sky names among the stars.           *)
listCelestialObjects_DsoAmongStars(cat, category) ==
  LET planets == IF category \in {"all", "planets"}
                 THEN << Group("Solar System Objects",
                               [i \in 1..Len(SolarSystemObjectKeys) |->
                                  capitalize(SolarSystemObjectKeys[i])]) >>
                 ELSE <<>>
      starNames == sortNames({capitalize(name) : name \in DOMAIN cat.STAR_CATALOG \cup DOMAIN cat.DSO_CATALOG})
      stars   == IF category \in {"all", "stars"}
                 THEN << Group("Stars", starNames) >>
                 ELSE <<>>
      messierObjects  == {capitalize(name) :
                            name \in {k \in DOMAIN cat.DSO_CATALOG : isMessierKey(k)}}
      otherDsoObjects == {capitalize(name) :
                            name \in {k \in DOMAIN cat.DSO_CATALOG : ~isMessierKey(k)}}
      dso     == IF category \in {"all", "dso"}
                 THEN (IF messierObjects # {}
                       THEN << Group("Messier Objects", sortMessier(messierObjects)) >>
                       ELSE <<>>)
                      \o (IF otherDsoObjects # {}
                          THEN << Group("Other Deep Sky Objects",
                                        sortNames(otherDsoObjects)) >>
                          ELSE <<>>)
                 ELSE <<>>
  IN  planets \o stars \o dso

(* listCelestialObjects(category): the groups pushed, in their order.      *)
listCelestialObjects(cat, category) ==
  LET planets == IF category \in {"all", "planets"}
                 THEN << Group("Solar System Objects",
                               [i \in 1..Len(SolarSystemObjectKeys) |->
                                  capitalize(SolarSystemObjectKeys[i])]) >>
                 ELSE <<>>
      starNames == sortNames({capitalize(name) : name \in DOMAIN cat.STAR_CATALOG})
      stars   == IF category \in {"all", "stars"}
                 THEN << Group("Stars", starNames) >>
                 ELSE <<>>
      messierObjects  == {capitalize(name) :
                            name \in {k \in DOMAIN cat.DSO_CATALOG : isMessierKey(k)}}
      otherDsoObjects == {capitalize(name) :
                            name \in {k \in DOMAIN cat.DSO_CATALOG : ~isMessierKey(k)}}
      dso     == IF category \in {"all", "dso"}
                 THEN (IF messierObjects # {}
                       THEN << Group("Messier Objects", sortMessier(messierObjects)) >>
                       ELSE <<>>)
                      \o (IF otherDsoObjects # {}
                          THEN << Group("Other Deep Sky Objects",
                                        sortNames(otherDsoObjects)) >>
                          ELSE <<>>)
                 ELSE <<>>
  IN  planets \o stars \o dso

(* The categories asked for; the last is one the function does not know.   *)
Categories == {"all", "planets", "stars", "dso", "messier"}

NotListed == [asked |-> "none", result |-> <<>>]

(* OBSERVER_CONFIG.longitude: -123.1207 as shipped.                         *)
ConfiguredLongitude == -((1231207 * (Unit \div 15000)) \div 10)

Longitudes == {ConfiguredLongitude, 0, HalfTurn}

(* The instants asked about, before and after the epoch, and the offsets   *)
(* of the clock of the process.                                            *)
Dates == {-1000, -31, -5, 0, 7, 13, 230, 1500}

TimeZones == {-8, 0, 9}

(* The requests the server has in hand at a time.                          *)
Requests == {"q1", "q2"}

(***************************************************************************)
(* The process: astronomy.ts is imported (its last statement runs          *)
(* initializeCatalogs), the server script calls initializeCatalogs again,  *)
(* listens, and then serves queries.                                       *)
(***************************************************************************)
VARIABLES
  pc,            \* "boot", "imported", "initialized", "listening", "crashed"
  dataDir,       \* the data directory exists
  files,         \* the files of the data directory
  STAR_CATALOG, DSO_CATALOG, COMMON_NAMES,
  initLog,       \* per completed initializeCatalogs: where each table came from
  written,       \* the files initializeCatalogs has written
  reply,         \* the last query served and its answer
  latitude,      \* OBSERVER_CONFIG.latitude
  Star1,         \* the star slot Body.Star1 of the ephemeris library
  inflight,      \* per request: the tool call it is in and what it holds
  longitude,     \* OBSERVER_CONFIG.longitude
  riseSet,       \* the last answer of the hour-angle getObjectDetails
  listing        \* the last answer of listCelestialObjects

vars == <<pc, dataDir, files, STAR_CATALOG, DSO_CATALOG, COMMON_NAMES,
          initLog, written, reply, latitude, Star1, inflight, longitude,
          riseSet, listing>>

almanac == <<longitude, riseSet, listing>>

toolState == <<latitude, Star1, inflight, longitude, riseSet, listing>>

catalogs ==
  [STAR_CATALOG |-> STAR_CATALOG, DSO_CATALOG |-> DSO_CATALOG,
   COMMON_NAMES |-> COMMON_NAMES]

NoReply == [op |-> "none", name |-> <<>>, answer |-> Answer("none", "none", NoEntry, <<>>)]

(* A request that is in no tool call.                                      *)
Idle ==
  [pc |-> "idle", tool |-> "none", objectName |-> <<>>, equatorialCoords |-> NoAnswer,
   altazCoords |-> NoAltAz, details |-> NoDetails, refractionApplied |-> FALSE]

(* The process at its start, in one of the data directories dirs and with  *)
(* one of the configured latitudes.                                        *)
InitWith(dirs, latitudes, longitudes) ==
  /\ pc = "boot"
  /\ dataDir \in BOOLEAN
  /\ files \in dirs
  /\ (~dataDir => files = EmptyDir)
  /\ STAR_CATALOG = EmptyMap
  /\ DSO_CATALOG = EmptyMap
  /\ COMMON_NAMES = EmptyMap
  /\ initLog = <<>>
  /\ written = {}
  /\ reply = NoReply
  /\ latitude \in latitudes
  /\ Star1 = NoStar
  /\ inflight = [q \in Requests |-> Idle]
  /\ longitude \in longitudes
  /\ riseSet = NoRiseSet
  /\ listing = NotListed

InitFrom(dirs, latitudes) == InitWith(dirs, latitudes, {ConfiguredLongitude})

Init == InitFrom(InitialDirs, {ConfiguredLatitude})

InitQueries == InitFrom(QueryDirs, Latitudes)

InitHourAngle == InitWith(QueryDirs, Latitudes, Longitudes)

(* One call of initializeCatalogs.  mkdirOk, starWriteOk and dsoWriteOk    *)
(* tell whether fs.mkdirSync and the two fs.writeFileSync calls succeed    *)
(* when they are reached; a failed mkdirSync is not caught.                *)
initializeCatalogs(next, mkdirOk, starWriteOk, dsoWriteOk) ==
  IF ~dataDir /\ ~mkdirOk
  THEN /\ pc' = "crashed"
       /\ UNCHANGED <<dataDir, files, STAR_CATALOG, DSO_CATALOG, COMMON_NAMES,
                      initLog, written, reply, toolState>>
  ELSE LET s == initStars(catalogs, files, starWriteOk)
           d == initDso(s.cat, s.fs, dsoWriteOk)
       IN  /\ pc' = next
           /\ dataDir' = TRUE
           /\ files' = d.fs
           /\ STAR_CATALOG' = d.cat.STAR_CATALOG
           /\ DSO_CATALOG' = d.cat.DSO_CATALOG
           /\ COMMON_NAMES' = d.cat.COMMON_NAMES
           /\ initLog' = Append(initLog, [stars |-> s.source, dso |-> d.source])
           /\ written' = written \cup s.wrote \cup d.wrote
           /\ reply' = reply
           /\ UNCHANGED toolState

(* The outcomes of the system calls a call of initializeCatalogs reaches:  *)
(* a call it does not make has no outcome to choose.                       *)
mkdirOutcomes == IF dataDir THEN {TRUE} ELSE BOOLEAN
starWriteOutcomes ==
  IF firstExisting(starCatalogFiles, files) # 0 THEN {TRUE} ELSE BOOLEAN
dsoWriteOutcomes ==
  IF firstExisting(dsoCatalogFiles, files) # 0 THEN {TRUE} ELSE BOOLEAN

(* import ... from './utils/astronomy': the module body ends with          *)
(* initializeCatalogs().                                                   *)
ImportAstronomy ==
  /\ pc = "boot"
  /\ \E mkdirOk \in mkdirOutcomes, starWriteOk \in starWriteOutcomes,
        dsoWriteOk \in dsoWriteOutcomes :
       initializeCatalogs("imported", mkdirOk, starWriteOk, dsoWriteOk)

(* The server script's own initializeCatalogs() call.                      *)
ServerInitializeCatalogs ==
  /\ pc = "imported"
  /\ \E mkdirOk \in mkdirOutcomes, starWriteOk \in starWriteOutcomes,
        dsoWriteOk \in dsoWriteOutcomes :
       initializeCatalogs("initialized", mkdirOk, starWriteOk, dsoWriteOk)

(* app.listen(PORT, ...) *)
Listen ==
  /\ pc = "initialized"
  /\ pc' = "listening"
  /\ UNCHANGED <<dataDir, files, STAR_CATALOG, DSO_CATALOG, COMMON_NAMES,
                 initLog, written, reply, toolState>>

(* Requests are handled only once the server listens.                      *)
(* Requests accepted as soon as the module is imported.                    *)
serving_OnceImported == pc \in {"imported", "initialized", "listening"}

serving == pc = "listening"

(* A getCelestialPosition request: getEquatorialCoordinates(objectName).   *)
GetEquatorialCoordinates ==
  /\ serving
  /\ \E objectName \in QueryNames :
       reply' = [op |-> "getEquatorialCoordinates", name |-> objectName,
                 answer |-> getEquatorialCoordinates(catalogs, objectName)]
  /\ UNCHANGED <<pc, dataDir, files, STAR_CATALOG, DSO_CATALOG, COMMON_NAMES,
                 initLog, written, toolState>>

(* CelestialDetailsTool.execute up to its await: the call of               *)
(* getEquatorialCoordinates runs to its return or throw, and the tool      *)
(* waits for the promise.                                                  *)
DetailsExecute(q) ==
  /\ serving
  /\ inflight[q].pc # "awaiting"
  /\ \E objectName \in ToolNames :
       inflight' = [inflight EXCEPT ![q] =
                      [Idle EXCEPT !.pc = "awaiting", !.tool = "getCelestialDetails",
                                   !.objectName = objectName,
                                   !.equatorialCoords =
                                      getEquatorialCoordinates(catalogs, objectName)]]
  /\ UNCHANGED <<pc, dataDir, files, STAR_CATALOG, DSO_CATALOG, COMMON_NAMES,
                 initLog, written, reply, latitude, Star1, almanac>>

(* CelestialDetailsTool.execute after its await: on a rejected promise the *)
(* error response; else convertToAltAz, getObjectDetails and the response, *)
(* in one run.                                                             *)
DetailsResume(q) ==
  /\ inflight[q].pc = "awaiting"
  /\ inflight[q].tool = "getCelestialDetails"
  /\ IF inflight[q].equatorialCoords.kind = "error"
     THEN /\ inflight' = [inflight EXCEPT ![q].pc = "failed"]
          /\ Star1' = Star1
     ELSE LET altazCoords == convertToAltAz(inflight[q].equatorialCoords, latitude)
              details     == getObjectDetails(catalogs, inflight[q].objectName,
                                              latitude, Star1)
          IN  /\ inflight' = [inflight EXCEPT ![q].pc = "done",
                                              ![q].altazCoords = altazCoords,
                                              ![q].details = details]
              /\ Star1' = details.Star1
  /\ UNCHANGED <<pc, dataDir, files, STAR_CATALOG, DSO_CATALOG, COMMON_NAMES,
                 initLog, written, reply, latitude, almanac>>

(* handleGetCelestialPosition up to its await.                             *)
PositionExecute(q) ==
  /\ serving
  /\ inflight[q].pc # "awaiting"
  /\ \E objectName \in ToolNames :
       inflight' = [inflight EXCEPT ![q] =
                      [Idle EXCEPT !.pc = "awaiting", !.tool = "getCelestialPosition",
                                   !.objectName = objectName,
                                   !.equatorialCoords =
                                      getEquatorialCoordinates(catalogs, objectName)]]
  /\ UNCHANGED <<pc, dataDir, files, STAR_CATALOG, DSO_CATALOG, COMMON_NAMES,
                 initLog, written, reply, latitude, Star1, almanac>>

(* handleGetCelestialPosition after its await: the error response, or      *)
(* convertToAltAz and the response, which reports refractionApplied: false. *)
PositionResume(q) ==
  /\ inflight[q].pc = "awaiting"
  /\ inflight[q].tool = "getCelestialPosition"
  /\ IF inflight[q].equatorialCoords.kind = "error"
     THEN inflight' = [inflight EXCEPT ![q].pc = "failed"]
     ELSE inflight' = [inflight EXCEPT
                         ![q].pc = "done",
                         ![q].altazCoords =
                            convertToAltAz(inflight[q].equatorialCoords, latitude),
                         ![q].refractionApplied = FALSE]
  /\ UNCHANGED <<pc, dataDir, files, STAR_CATALOG, DSO_CATALOG, COMMON_NAMES,
                 initLog, written, reply, latitude, Star1, almanac>>

Next ==
  \/ ImportAstronomy
  \/ ServerInitializeCatalogs
  \/ Listen
  \/ GetEquatorialCoordinates

Spec == Init /\ [][Next]_vars

(* The server answering tool calls, two requests at a time.                *)
NextQueries ==
  \/ ImportAstronomy
  \/ ServerInitializeCatalogs
  \/ Listen
  \/ \E q \in Requests : DetailsExecute(q)
  \/ \E q \in Requests : DetailsResume(q)
  \/ \E q \in Requests : PositionExecute(q)
  \/ \E q \in Requests : PositionResume(q)

SpecQueries == InitQueries /\ [][NextQueries]_vars

(* A getCelestialDetails request served by the hour-angle getObjectDetails, *)
(* at an instant of the clock of a process in some time zone.              *)
GetObjectDetailsByHourAngle ==
  /\ serving
  /\ \E objectName \in ToolNames, date \in Dates, timeZone \in TimeZones :
       riseSet' = getObjectDetailsByHourAngle(catalogs, objectName, date, timeZone,
                                              latitude, longitude)
  /\ UNCHANGED <<pc, dataDir, files, STAR_CATALOG, DSO_CATALOG, COMMON_NAMES,
                 initLog, written, reply, latitude, Star1, inflight, longitude,
                 listing>>

NextHourAngle ==
  \/ ImportAstronomy
  \/ ServerInitializeCatalogs
  \/ Listen
  \/ GetObjectDetailsByHourAngle

SpecHourAngle == InitHourAngle /\ [][NextHourAngle]_vars

(* A listCelestialObjects request.                                         *)
ListCelestialObjects ==
  /\ serving
  /\ \E category \in Categories :
       listing' = [asked |-> category,
                   result |-> listCelestialObjects(catalogs, category)]
  /\ UNCHANGED <<pc, dataDir, files, STAR_CATALOG, DSO_CATALOG, COMMON_NAMES,
                 initLog, written, reply, latitude, Star1, inflight, longitude,
                 riseSet>>

NextListing ==
  \/ ImportAstronomy
  \/ ServerInitializeCatalogs
  \/ Listen
  \/ ListCelestialObjects

SpecListing == Init /\ [][NextListing]_vars

(***************************************************************************)
(* Properties                                                              *)
(***************************************************************************)
coordsOf(entry) == <<entry.rightAscension, entry.declination>>

asked == reply.op = "getEquatorialCoordinates"

(* The name the last query was for, as the resolver normalizes it. *)
askedName == toLowerCase(reply.name)

(* C1: getEquatorialCoordinates answers from the first step that matches,  *)
(* in the order solar-system body names, alias table, stars, deep-sky      *)
(* objects: a name matching an earlier step is never answered from a       *)
(* later one.                                                              *)
C1_ResolutionOrder ==
  asked =>
    LET n == askedName
        a == reply.answer
    IN  IF n \in SOLAR_SYSTEM_OBJECTS
        THEN a.kind = "solar" /\ a.via = "solar"
        ELSE IF n \in DOMAIN COMMON_NAMES
        THEN /\ a.kind = "entry" /\ a.via = "alias"
             /\ COMMON_NAMES[n] \in DOMAIN DSO_CATALOG
             /\ a.entry = DSO_CATALOG[COMMON_NAMES[n]]
        ELSE IF n \in DOMAIN STAR_CATALOG
        THEN a.kind = "entry" /\ a.via = "stars" /\ a.entry = STAR_CATALOG[n]
        ELSE IF n \in DOMAIN DSO_CATALOG
        THEN a.kind = "entry" /\ a.via = "dso" /\ a.entry = DSO_CATALOG[n]
        ELSE a.kind = "error"

(* A name that is a star key and a deep-sky key with another coordinate    *)
(* was answered from the star table.                                       *)
C1_Witness ==
  /\ asked
  /\ reply.answer.via = "stars"
  /\ askedName \in DOMAIN DSO_CATALOG
  /\ coordsOf(DSO_CATALOG[askedName]) # coordsOf(reply.answer.entry)

sameOutcome(a, b) == a.kind = b.kind /\ a.via = b.via /\ a.entry = b.entry

(* C3 as claimed: a query has the outcome of the query for the lowercased  *)
(* and trimmed name.                                                       *)
C3_LowercasedTrimmedSameOutcome ==
  asked =>
    sameOutcome(reply.answer,
                getEquatorialCoordinates(catalogs, toLowerCase(trim(reply.name))))

(* C3 as amended: a query has the outcome of the query for the lowercased  *)
(* name; surrounding white space is not removed.                           *)
C3_LowercasedSameOutcome ==
  asked =>
    sameOutcome(reply.answer,
                getEquatorialCoordinates(catalogs, toLowerCase(reply.name)))

(* A name with capital letters resolved to a table entry.                  *)
C3_Witness ==
  asked /\ reply.name # toLowerCase(reply.name) /\ reply.answer.kind = "entry"

(* C4 as claimed: for every alias -> canonical key, the query for the      *)
(* alias and the query for the canonical key yield the same right          *)
(* ascension and declination, whatever else the tables hold.               *)
C4_AliasRoundTrip ==
  (asked /\ askedName \in DOMAIN COMMON_NAMES) =>
    LET viaKey == getEquatorialCoordinates(catalogs, COMMON_NAMES[askedName])
    IN  /\ reply.answer.kind = "entry"
        /\ viaKey.kind = "entry"
        /\ coordsOf(viaKey.entry) = coordsOf(reply.answer.entry)

(* C4 as amended: the query for an alias that is no solar-system body name *)
(* yields the deep-sky entry stored under its canonical key, and the query *)
(* for the canonical key yields the same coordinate unless an earlier      *)
(* resolution step answers the canonical key first (it is a solar-system   *)
(* body name, itself an alias, or a key of the star table).                *)
C4_AliasRoundTripUnlessShadowed ==
  (asked /\ askedName \in DOMAIN COMMON_NAMES /\ ~solarLookup(askedName)) =>
    LET key    == COMMON_NAMES[askedName]
        viaKey == getEquatorialCoordinates(catalogs, key)
    IN  /\ reply.answer.kind = "entry"
        /\ key \in DOMAIN DSO_CATALOG
        /\ reply.answer.entry = DSO_CATALOG[key]
        /\ (~solarLookup(key) /\ key \notin DOMAIN COMMON_NAMES
              /\ key \notin DOMAIN STAR_CATALOG)
             => /\ viaKey.kind = "entry"
                /\ coordsOf(viaKey.entry) = coordsOf(reply.answer.entry)

(* An alias was asked for whose canonical key resolves on its own, to the  *)
(* same entry.                                                             *)
C4_Witness ==
  /\ asked /\ askedName \in DOMAIN COMMON_NAMES
  /\ COMMON_NAMES[askedName] \notin DOMAIN STAR_CATALOG
  /\ COMMON_NAMES[askedName] \notin DOMAIN COMMON_NAMES
  /\ reply.answer.kind = "entry"
  /\ getEquatorialCoordinates(catalogs, COMMON_NAMES[askedName]).via = "dso"

(* The file initializeCatalogs designated for a table: the first of its    *)
(* list that exists.                                                       *)
designated(list) == list[firstExisting(list, files)]

emptyStore ==
  [STAR_CATALOG |-> EmptyMap, DSO_CATALOG |-> EmptyMap, COMMON_NAMES |-> EmptyMap]

(* The first initializeCatalogs read the table from a file that was there. *)
starsFromFile == Len(initLog) >= 1 /\ initLog[1].stars = "file"
dsoFromFile == Len(initLog) >= 1 /\ initLog[1].dso = "file"

(* The first initializeCatalogs found no catalog file for the table.       *)
starsFellBack == Len(initLog) >= 1 /\ initLog[1].stars # "file"
dsoFellBack == Len(initLog) >= 1 /\ initLog[1].dso # "file"

(* Every built-in entry is in the table, under its lowercased name.        *)
holdsHardcoded(catalog, table) ==
  \A n \in DOMAIN table :
    toLowerCase(n) \in DOMAIN catalog /\ catalog[toLowerCase(n)] = table[n]

(* The table has the built-in keys and no other, with the built-in right   *)
(* ascension and declination.                                              *)
isHardcodedCoords(catalog, table) ==
  /\ DOMAIN catalog = {toLowerCase(n) : n \in DOMAIN table}
  /\ \A n \in DOMAIN table :
       coordsOf(catalog[toLowerCase(n)]) = coordsOf(table[n])

starFileUnparsable ==
  LET rows == files[designated(starCatalogFiles)].rows
  IN  \/ csvParseThrows(rows)
      \/ (IF isHygPath(designated(starCatalogFiles))
          THEN loadHygRows(emptyStore, rows)
          ELSE loadStarRows(emptyStore, rows)).STAR_CATALOG = EmptyMap

dsoFileUnparsable ==
  LET rows == files[designated(dsoCatalogFiles)].rows
  IN  IF isOpenNgcPath(designated(dsoCatalogFiles))
      THEN loadOpenNgcRows(emptyStore, rows).DSO_CATALOG = EmptyMap
      ELSE \/ csvParseThrows(rows)
           \/ loadDsoRows(emptyStore, rows).DSO_CATALOG = EmptyMap

(* C6: a designated file that exists but is wholly unparsable (a fatal     *)
(* parse error, or no valid row) leaves the table holding every built-in   *)
(* entry, never empty.                                                     *)
C6_UnparsableFileFallsBack ==
  /\ (starsFromFile /\ starFileUnparsable) =>
       holdsHardcoded(STAR_CATALOG, HARDCODED_STAR_CATALOG)
  /\ (dsoFromFile /\ dsoFileUnparsable) =>
       holdsHardcoded(DSO_CATALOG, HARDCODED_MESSIER_CATALOG)

C8_TablesImmutableAfterInit ==
  [][Len(initLog) >= 1 =>
       <<STAR_CATALOG, DSO_CATALOG, COMMON_NAMES>>' =
         <<STAR_CATALOG, DSO_CATALOG, COMMON_NAMES>>]_vars

inRange(x, lo, hi) == x.k = "num" /\ lo <= x.v /\ x.v <= hi

coordinateValid(entry) ==
  /\ inRange(entry.rightAscension, 0, 24 * Unit - 1)
  /\ inRange(entry.declination, -90 * Unit, 90 * Unit)

(* C10: every entry of the star and deep-sky tables has a finite right     *)
(* ascension in [0,24) hours and a finite declination in [-90,90] degrees. *)
C10_CoordinatesInRange ==
  /\ \A key \in DOMAIN STAR_CATALOG : coordinateValid(STAR_CATALOG[key])
  /\ \A key \in DOMAIN DSO_CATALOG : coordinateValid(DSO_CATALOG[key])

(* The entries the row would add when read on its own by the loader that   *)
(* reads the file at filePath.                                             *)
starRowKeys(filePath, record) ==
  DOMAIN (IF isHygPath(filePath)
          THEN processHygRecord(emptyStore, record)
          ELSE processStarRecord(emptyStore, record)).STAR_CATALOG

dsoRowKeys(filePath, record) ==
  DOMAIN (IF isOpenNgcPath(filePath)
          THEN processOpenNgcRecord(emptyStore, record)
          ELSE processDsoRecord(emptyStore, record)).DSO_CATALOG

(* C11: no single bad row aborts ingestion.  Every well-formed row of the   *)
(* designated catalog file that yields an entry has its keys in the table, *)
(* whatever other rows the file holds, before or after it.                 *)
C11_ValidRowsContribute ==
  /\ starsFromFile =>
       LET filePath == designated(starCatalogFiles)
           rows     == files[filePath].rows
       IN  \A i \in 1..Len(rows) :
             rows[i].wellFormed =>
               starRowKeys(filePath, rows[i]) \subseteq DOMAIN STAR_CATALOG
  /\ dsoFromFile =>
       LET filePath == designated(dsoCatalogFiles)
           rows     == files[filePath].rows
       IN  \A i \in 1..Len(rows) :
             rows[i].wellFormed =>
               dsoRowKeys(filePath, rows[i]) \subseteq DOMAIN DSO_CATALOG

(* The name matches no solar-system body name, no alias and no key of      *)
(* either table.                                                           *)
unresolvedName(name) ==
  /\ name \notin SOLAR_SYSTEM_OBJECTS
  /\ name \notin DOMAIN COMMON_NAMES
  /\ name \notin DOMAIN STAR_CATALOG
  /\ name \notin DOMAIN DSO_CATALOG

(* C12: a query for a name that matches nothing (a prefix of a key         *)
(* included) fails with an error that echoes the name the caller gave, and *)
(* a query leaves the tables as they were.                                 *)
C12_UnresolvedNameEchoed ==
  /\ [](asked /\ unresolvedName(askedName) =>
          reply.answer.kind = "error" /\ reply.answer.text = reply.name)
  /\ [][reply' # reply => UNCHANGED catalogs]_vars

(* The value the text of a sexagesimal field stands for: for RA the sum    *)
(* hours + minutes/60 + seconds/3600, for Dec the sign written in the      *)
(* first part applied to |degrees| + minutes/60 + seconds/3600.            *)
writtenNegative(part) == part.k = "negzero" \/ (part.k = "num" /\ part.v < 0)

writtenMagnitude(part) == IF part.v < 0 THEN -part.v ELSE part.v

writtenRa(field) ==
  Num(field[1].v + DivBy(Num(field[2].v), 60).v + DivBy(Num(field[3].v), 3600).v)

writtenDec(field) ==
  LET magnitude == writtenMagnitude(field[1]) + DivBy(Num(field[2].v), 60).v
                   + DivBy(Num(field[3].v), 3600).v
  IN  Num(IF writtenNegative(field[1]) THEN -magnitude ELSE magnitude)

threeNumericParts(field) ==
  /\ truthy(field)
  /\ Len(field) = 3
  /\ \A j \in 1..3 : field[j].k \in {"num", "negzero"}

(* C18: every line of ngc.csv whose RA and Dec fields split into three     *)
(* numeric parts is stored with RA = HH + MM/60 + SS/3600 and with Dec =   *)
(* sign * (|DD| + MM/60 + SS/3600), the sign being the one written in the  *)
(* degrees part (negative for -00 too); a line whose RA or Dec field does  *)
(* not split into three numeric parts adds no entry.                       *)
C18_SexagesimalParsing ==
  (dsoFromFile /\ isOpenNgcPath(designated(dsoCatalogFiles))) =>
    LET rows == files[designated(dsoCatalogFiles)].rows
    IN  \A i \in 1..Len(rows) :
          LET record == rows[i]
              after  == processOpenNgcRecord(emptyStore, record).DSO_CATALOG
          IN  IF threeNumericParts(record.RA) /\ threeNumericParts(record.Dec)
              THEN \A key \in DOMAIN after :
                     /\ after[key].rightAscension = writtenRa(record.RA)
                     /\ after[key].declination = writtenDec(record.Dec)
              ELSE after = EmptyMap

(* The name is NGC or IC followed by a zero-padded positive number.        *)
zeroPaddedUnder(name, prefix) ==
  /\ startsWith(name, prefix)
  /\ \A i \in Len(prefix) + 1 .. Len(name) : name[i] \in Digits
  /\ stripZeros(SubSeq(name, Len(prefix) + 1, Len(name))) # <<>>

zeroPaddedName(name) == zeroPaddedUnder(name, s_NGC) \/ zeroPaddedUnder(name, s_IC)

(* The lowercase prefix followed by the number without its leading zeros.  *)
canonicalKey(name) ==
  LET prefix == IF zeroPaddedUnder(name, s_NGC) THEN s_NGC ELSE s_IC
  IN  toLowerCase(prefix) \o stripZeros(SubSeq(name, Len(prefix) + 1, Len(name)))

(* The name field the loader that reads the file at filePath takes.        *)
dsoRowName(filePath, record) ==
  IF isOpenNgcPath(filePath) THEN record.Name
  ELSE OrElse(record.name, OrElse(record.Name, OrElse(record.id, record.ID)))

(* The rows of the designated deep-sky file that the load has stored and   *)
(* whose name is a zero-padded NGC or IC name.                             *)
storedZeroPaddedRows ==
  LET filePath == designated(dsoCatalogFiles)
      rows     == files[filePath].rows
  IN  {i \in 1..Len(rows) :
         /\ rows[i].wellFormed
         /\ zeroPaddedName(dsoRowName(filePath, rows[i]))
         /\ dsoRowKeys(filePath, rows[i]) # {}
         /\ dsoRowKeys(filePath, rows[i]) \subseteq DOMAIN DSO_CATALOG}

canonicalizationIdempotent ==
  \A f \in DOMAIN files :
    \A i \in 1..Len(files[f].rows) :
      LET name == dsoRowName(f, files[f].rows[i])
      IN  fixLeadingZeros(fixLeadingZeros(name)) = fixLeadingZeros(name)

keysLowercase ==
  /\ \A key \in DOMAIN STAR_CATALOG : toLowerCase(key) = key
  /\ \A key \in DOMAIN DSO_CATALOG : toLowerCase(key) = key

rowStoredCanonically(i) ==
  LET filePath == designated(dsoCatalogFiles)
      name     == dsoRowName(filePath, files[filePath].rows[i])
  IN  /\ canonicalKey(name) \in DOMAIN DSO_CATALOG
      /\ canonicalKey(name) \in dsoRowKeys(filePath, files[filePath].rows[i])

(* C19 as claimed: every zero-padded NGC or IC name is stored in the       *)
(* deep-sky table under the lowercase prefix and the number without        *)
(* leading zeros, whichever catalog file it comes from; canonicalization   *)
(* is idempotent and every key of both tables is lowercase.                *)
C19_CanonicalKeysEveryFile ==
  /\ dsoFromFile => \A i \in storedZeroPaddedRows : rowStoredCanonically(i)
  /\ canonicalizationIdempotent
  /\ keysLowercase

(* C19: the same for the names of ngc.csv, the file the sexagesimal branch *)
(* reads; other deep-sky files keep the name as written, lowercased.       *)
C19_CanonicalKeysOpenNgc ==
  /\ (dsoFromFile /\ isOpenNgcPath(designated(dsoCatalogFiles))) =>
       \A i \in storedZeroPaddedRows : rowStoredCanonically(i)
  /\ (dsoFromFile /\ ~isOpenNgcPath(designated(dsoCatalogFiles))) =>
       \A i \in storedZeroPaddedRows :
         toLowerCase(dsoRowName(designated(dsoCatalogFiles),
                                files[designated(dsoCatalogFiles)].rows[i]))
           \in DOMAIN DSO_CATALOG
  /\ canonicalizationIdempotent
  /\ keysLowercase

C19_Witness ==
  /\ pc = "listening"
  /\ dsoFromFile
  /\ isOpenNgcPath(designated(dsoCatalogFiles))
  /\ \E i \in storedZeroPaddedRows :
       files[designated(dsoCatalogFiles)].rows[i].Name = rowIC3.Name
  /\ <<"i", "c", "3">> \in DOMAIN DSO_CATALOG
  /\ <<"i", "c", "0", "0", "0", "3">> \notin DOMAIN DSO_CATALOG

(* The deep-sky table as it stands once the first i lines of ngc.csv have  *)
(* been ingested.                                                          *)
dsoAfterRows(i) ==
  loadDSOCatalog(emptyStore,
                 [files EXCEPT ![f_ngc].rows = SubSeq(@, 1, i)], f_ngc).DSO_CATALOG

(* The column holds a number: digits only, not all of them zero.           *)
holdsNumber(field) ==
  /\ field # <<>>
  /\ \A j \in 1..Len(field) : field[j] \in Digits
  /\ stripZeros(field) # <<>>

messierKey(field) == <<"m">> \o stripZeros(field)

validRaDec(record) ==
  threeNumericParts(record.RA) /\ threeNumericParts(record.Dec)

(* C20: once a line of ngc.csv with valid RA and Dec and the number k in   *)
(* its M column has been ingested, the deep-sky table holds the line's     *)
(* canonical key and the key m<k>, k without leading zeros, with the same  *)
(* RA and Dec; a line with an empty M column adds no key but its own.      *)
C20_MessierCrossReference ==
  (dsoFromFile /\ isOpenNgcPath(designated(dsoCatalogFiles))) =>
    LET rows == files[f_ngc].rows
    IN  /\ DSO_CATALOG = dsoAfterRows(Len(rows))
        /\ \A i \in 1..Len(rows) :
             LET record == rows[i]
                 before == dsoAfterRows(i - 1)
                 after  == dsoAfterRows(i)
                 own    == toLowerCase(fixLeadingZeros(record.Name))
             IN  /\ (truthy(record.Name) /\ validRaDec(record)
                       /\ holdsNumber(record.M)) =>
                      /\ own \in DOMAIN after
                      /\ messierKey(record.M) \in DOMAIN after
                      /\ coordsOf(after[messierKey(record.M)]) = coordsOf(after[own])
                      /\ coordsOf(after[own]) =
                           <<writtenRa(record.RA), sexagesimal(record.Dec)>>
                 /\ record.M = <<>> =>
                      DOMAIN after \subseteq DOMAIN before \cup {own}

C20_Witness ==
  /\ pc = "listening"
  /\ dsoFromFile
  /\ isOpenNgcPath(designated(dsoCatalogFiles))
  /\ \E i \in 1..Len(files[f_ngc].rows) : files[f_ngc].rows[i] = rowAndromeda
  /\ <<"m", "3", "1">> \in DOMAIN DSO_CATALOG
  /\ <<"n", "g", "c", "2", "2", "4">> \in DOMAIN DSO_CATALOG
  /\ coordsOf(DSO_CATALOG[<<"m", "3", "1">>]) =
       coordsOf(DSO_CATALOG[<<"n", "g", "c", "2", "2", "4">>])

(* A request whose tool call has returned its response.                    *)
done(q) == inflight[q].pc = "done"

(* A finished getCelestialDetails call for an object of the catalog        *)
(* tables.                                                                 *)
detailsOfFixed(q) ==
  /\ done(q)
  /\ inflight[q].tool = "getCelestialDetails"
  /\ inflight[q].equatorialCoords.kind = "entry"

declinationOf(q) == inflight[q].equatorialCoords.entry.declination.v

(* |cosH| >= 1 for cosH = -tan(latitude) * tan(declination): the           *)
(* magnitudes of latitude and declination sum to a right angle or more.    *)
noCrossing(q) == Magnitude(latitude) + Magnitude(declinationOf(q)) >= RightAngle

tangent(q) == Magnitude(latitude) + Magnitude(declinationOf(q)) = RightAngle

(* C13: whenever |cosH| >= 1, tangency |cosH| = 1 included, the visibility *)
(* result is the non-crossing classification and holds no rise, transit    *)
(* or set instant.                                                         *)
C13_InclusiveBoundary ==
  \A q \in Requests :
    (detailsOfFixed(q) /\ noCrossing(q)) => inflight[q].details.kind = "nonCrossing"

(* C14: in the non-crossing branch neverSets is true exactly when          *)
(* declination > 0 and latitude > 0, neverRises is true in every other     *)
(* non-crossing case, so exactly one of the two is true; declination       *)
(* 89.2641 at latitude 49.2827 is circumpolar with neverRises false.       *)
C14_NonCrossingClassification ==
  \A q \in Requests :
    detailsOfFixed(q) =>
      /\ inflight[q].details.kind = "nonCrossing" =>
           /\ inflight[q].details.neverSets = (declinationOf(q) > 0 /\ latitude > 0)
           /\ inflight[q].details.neverRises = ~inflight[q].details.neverSets
           /\ inflight[q].details.isCircumpolar
           /\ noCrossing(q)
      /\ (noCrossing(q) /\ ~tangent(q)) => inflight[q].details.kind = "nonCrossing"
      /\ (latitude = ConfiguredLatitude /\ declinationOf(q) = 892641 * (Unit \div 10000)) =>
           /\ inflight[q].details.kind = "nonCrossing"
           /\ inflight[q].details.isCircumpolar
           /\ ~inflight[q].details.neverRises

C14_Witness ==
  \E q \in Requests :
    /\ detailsOfFixed(q)
    /\ inflight[q].objectName = <<"P", "o", "l", "a", "r", "i", "s">>
    /\ latitude = ConfiguredLatitude
    /\ inflight[q].details.kind = "nonCrossing"
    /\ inflight[q].details.neverSets
    /\ ~inflight[q].details.neverRises

(* C15: for an object resolved from the catalog tables neither             *)
(* convertToAltAz nor getObjectDetails calls the ephemeris library.        *)
C15_CatalogPathsCallNoEphemeris ==
  \A q \in Requests :
    (done(q) /\ inflight[q].equatorialCoords.kind = "entry") =>
      /\ inflight[q].altazCoords.calls = {}
      /\ inflight[q].details.calls = {}

(* C16: convertToAltAz asks for no refraction, in agreement with the       *)
(* refractionApplied: false of the position response.                      *)
C16_NoRefraction ==
  \A q \in Requests :
    done(q) =>
      /\ inflight[q].altazCoords.refraction = "none"
      /\ inflight[q].refractionApplied = (inflight[q].altazCoords.refraction # "none")

(* A request waiting on its promise whose remaining run will search on the *)
(* star slot.                                                              *)
willReadStar1(q) ==
  /\ inflight[q].pc = "awaiting"
  /\ inflight[q].tool = "getCelestialDetails"
  /\ inflight[q].equatorialCoords.kind = "entry"
  /\ ~noCrossing(q)

(* C17: under every interleaving of two queries each query's result is     *)
(* that of its own object, and no step of a query writes the tables or the *)
(* star slot while another query that reads them is in flight.             *)
C17_QueriesWriteNoSharedState ==
  /\ [](\A q \in Requests :
          (detailsOfFixed(q) /\ inflight[q].details.kind = "riseSet") =>
            inflight[q].details.Star1 = coordsOf(inflight[q].equatorialCoords.entry))
  /\ [][\A q \in Requests :
          willReadStar1(q) /\ inflight'[q] = inflight[q] =>
            Star1' = Star1 /\ UNCHANGED catalogs]_vars

(* The name of a row of the wide star table by the precedence proper name, *)
(* Bayer/Flamsteed designation, HD number, HIP number, synthesized name.   *)
nameByPrecedence(record) ==
  IF trim(record.proper) # <<>> THEN trim(record.proper)
  ELSE IF trim(record.bf) # <<>> THEN trim(record.bf)
  ELSE IF trim(record.hd) # <<>> THEN s_HD \o trim(record.hd)
  ELSE IF trim(record.hip) # <<>> THEN s_HIP \o trim(record.hip)
  ELSE s_StarMag \o toFixed1(parseFloat(record.mag)) \o
       (IF trim(record.con) # <<>> THEN s_in \o trim(record.con) ELSE <<>>)

(* The rows of the designated HYG file that the load stores an entry for.  *)
storedHygRows ==
  LET rows == files[designated(starCatalogFiles)].rows
  IN  {i \in 1..Len(rows) :
         starRowKeys(designated(starCatalogFiles), rows[i]) # {}}

(* C21: a row of the wide star table is stored under the first available   *)
(* of proper name, Bayer/Flamsteed designation, HD number, HIP number and  *)
(* synthesized name; with both an HD and a HIP number and nothing before   *)
(* them, under HD <number>.                                                *)
C21_StarNamePrecedence ==
  (starsFromFile /\ isHygPath(designated(starCatalogFiles))
     /\ ~csvParseThrows(files[designated(starCatalogFiles)].rows)) =>
    \A i \in storedHygRows :
      toLowerCase(nameByPrecedence(files[designated(starCatalogFiles)].rows[i]))
        \in DOMAIN STAR_CATALOG

(* The tables a loader builds from the same content stored under the path  *)
(* filePath and nothing else.                                              *)
dsoLoadedUnder(filePath, rows) ==
  loadDSOCatalog(emptyStore, [EmptyDir EXCEPT ![filePath] = File(rows)], filePath)

starLoadedUnder(filePath, rows) ==
  loadStarCatalog(emptyStore, [EmptyDir EXCEPT ![filePath] = File(rows)], filePath)

(* C22: how a catalog file is parsed depends on its content only: the      *)
(* content of the designated file stored under any other catalog file name *)
(* gives the same stars, deep-sky and alias tables as the ones loaded.      *)
C22_ParserChosenByContent ==
  /\ dsoFromFile =>
       \A k \in 1..Len(dsoCatalogFiles) :
         LET loaded == dsoLoadedUnder(dsoCatalogFiles[k],
                                      files[designated(dsoCatalogFiles)].rows)
         IN  /\ loaded.DSO_CATALOG = DSO_CATALOG
             /\ loaded.COMMON_NAMES = COMMON_NAMES
  /\ starsFromFile =>
       \A k \in 1..Len(starCatalogFiles) :
         starLoadedUnder(starCatalogFiles[k],
                         files[designated(starCatalogFiles)].rows).STAR_CATALOG
           = STAR_CATALOG


(***************************************************************************)
(* Sidereal time and the hour-angle rise, transit and set.                 *)
(***************************************************************************)
inTurn(angle) == 0 <= angle /\ angle < FullTurn

inDay(hours) == 0 <= hours /\ hours < FullTurn

(* C23: at every instant, before the epoch too, at every longitude and for *)
(* every right ascension the sidereal quantities of the computation are    *)
(* reduced: GMST, LST and the hour angle are each in [0, 360).             *)
C23_SiderealQuantitiesInRange ==
  riseSet.kind = "riseSet" =>
    /\ inTurn(riseSet.gmst)
    /\ inTurn(riseSet.lst)
    /\ inTurn(riseSet.ha0h)


crossing == riseSet.kind = "riseSet"

(* The instant hours after the local midnight startOfDay, to the second    *)
(* below.                                                                  *)
secondsAfterMidnight(hours) ==
  riseSet.startOfDay * 3600 + hours \div (Unit \div 3600)

withinDayOfRequest(instant) ==
  /\ riseSet.startOfDay * 3600 <= instant
  /\ instant < (riseSet.startOfDay + HoursPerDay) * 3600

C25_TransitAtZeroRiseSetSymmetric ==
  /\ (/\ riseSet.kind \notin {"none", "solar"}
      /\ detailsLookup(catalogs, toLowerCase(riseSet.objectName)) # NoEntry
      /\ ~absCosHAboveOne(latitude,
            detailsLookup(catalogs, toLowerCase(riseSet.objectName)).declination.v))
       => crossing
  /\ crossing =>
       /\ (riseSet.ha0h + riseSet.transitHours) % FullTurn = 0
       /\ (riseSet.transitHours - riseSet.riseHours) % FullTurn = riseSet.hourAngleDeg
       /\ (riseSet.setHours - riseSet.transitHours) % FullTurn = riseSet.hourAngleDeg

(* A set that falls on the other side of midnight from its transit, and    *)
(* the object that grazes the horizon with H = 180.                        *)
C25_Witness ==
  /\ crossing
  /\ riseSet.setHours < riseSet.transitHours
  /\ riseSet.ha0h # 0

(* C26: the hour angle HA0h belongs to the instant the offsets are added   *)
(* to: the 0h local sidereal time is the local sidereal time of the local  *)
(* midnight startOfDay, whatever the requested instant and the time zone.  *)
C26_HourAngleAtLocalMidnight ==
  crossing =>
    (riseSet.lst0h - (gmstAt(riseSet.startOfDay) + longitude)) % FullTurn = 0

(***************************************************************************)
(* The two lookups of a name.                                              *)
(***************************************************************************)

(* C27: for a name that is no solar-system name, the entry getObjectDetails *)
(* takes its coordinates from is the entry getEquatorialCoordinates        *)
(* answers with, also when the name is at once an alias and a key of the   *)
(* star or deep-sky table, and getObjectDetails finds an object whenever   *)
(* getEquatorialCoordinates does.                                          *)
C27_BothOperationsSameEntry ==
  (asked /\ ~solarLookup(askedName) /\ reply.answer.kind = "entry") =>
    /\ detailsLookup(catalogs, askedName) # NoEntry
    /\ coordsOf(detailsLookup(catalogs, askedName)) = coordsOf(reply.answer.entry)

(***************************************************************************)
(* Listing and resolving.                                                  *)
(***************************************************************************)
listed == listing.asked # "none"

DsoCategories == {"Messier Objects", "Other Deep Sky Objects"}

(* The names listed in the groups of the categories given.                 *)
listedIn(categories) ==
  UNION { {listing.result[g].objects[i] : i \in 1..Len(listing.result[g].objects)} :
            g \in {h \in 1..Len(listing.result) :
                     listing.result[h].category \in categories} }

(* The listed name resolves to the coordinates of the entry of the table   *)
(* under its key.                                                          *)
resolvesToEntryOf(table, name) ==
  /\ toLowerCase(name) \in DOMAIN table
  /\ getEquatorialCoordinates(catalogs, name).kind = "entry"
  /\ coordsOf(getEquatorialCoordinates(catalogs, name).entry)
       = coordsOf(table[toLowerCase(name)])

(* An earlier step of the resolution order takes the key.                  *)
takenBefore(key) == solarLookup(key) \/ key \in DOMAIN COMMON_NAMES

(* C28 as stated: every name listed in a star or deep-sky category is      *)
(* accepted by getEquatorialCoordinates and resolves to the coordinates of *)
(* the entry it was listed from.                                           *)
C28_ListedNamesResolve ==
  listed =>
    /\ \A name \in listedIn({"Stars"}) : resolvesToEntryOf(STAR_CATALOG, name)
    /\ \A name \in listedIn(DsoCategories) : resolvesToEntryOf(DSO_CATALOG, name)

(* C28, amended: every name listed in a star or deep-sky category whose    *)
(* key no earlier step of the resolution order takes (the solar-system     *)
(* lookup, the alias table, and for a deep-sky name the stars table)       *)
(* is accepted by getEquatorialCoordinates and resolves to the coordinates *)
(* of the entry it was listed from.                                        *)
C28_ListedNamesResolveUnlessTaken ==
  listed =>
    /\ \A name \in listedIn({"Stars"}) :
         ~takenBefore(toLowerCase(name)) => resolvesToEntryOf(STAR_CATALOG, name)
    /\ \A name \in listedIn(DsoCategories) :
         (~takenBefore(toLowerCase(name)) /\ toLowerCase(name) \notin DOMAIN STAR_CATALOG)
           => resolvesToEntryOf(DSO_CATALOG, name)

(* A listing of stars read from a file and of deep-sky objects, with names *)
(* that no earlier step takes.                                             *)
C28_Witness ==
  /\ listed
  /\ starsFromFile
  /\ \E name \in listedIn({"Stars"}) : ~takenBefore(toLowerCase(name))
  /\ \E name \in listedIn({"Other Deep Sky Objects"}) :
       ~takenBefore(toLowerCase(name)) /\ toLowerCase(name) \notin DOMAIN STAR_CATALOG

(***************************************************************************)
(* The alias table.                                                        *)
(***************************************************************************)

(* C29: in every state, whatever the files, the order of their rows and    *)
(* the fallbacks taken, every value of the alias table is a key of the     *)
(* deep-sky table or of the star table.                                    *)
C29_AliasesPointToKeys ==
  \A alias \in DOMAIN COMMON_NAMES :
    COMMON_NAMES[alias] \in DOMAIN DSO_CATALOG \cup DOMAIN STAR_CATALOG

(* Aliases read from a deep-sky file that also has a row the loader        *)
(* rejects.                                                                *)
C29_Witness ==
  /\ pc = "listening"
  /\ dsoFromFile
  /\ COMMON_NAMES # EmptyMap
  /\ \E i \in 1..Len(files[designated(dsoCatalogFiles)].rows) :
       dsoRowKeys(designated(dsoCatalogFiles),
                  files[designated(dsoCatalogFiles)].rows[i]) = {}

(***************************************************************************)
(* The classification and the geometry.                                    *)
(***************************************************************************)
sameSign(a, b) == (a > 0 /\ b > 0) \/ (a < 0 /\ b < 0)

oppositeSign(a, b) == (a > 0 /\ b < 0) \/ (a < 0 /\ b > 0)

(* C30: neverRises is reported only when cosH >= 1, the latitude and the   *)
(* declination being of opposite sign, and neverSets only when cosH <= -1, *)
(* their sign being the same, for southern observers and southern          *)
(* declinations too.                                                       *)
C30_ClassificationAgreesWithGeometry ==
  \A q \in Requests :
    detailsOfFixed(q) =>
      /\ inflight[q].details.neverRises =>
           (noCrossing(q) /\ oppositeSign(latitude, declinationOf(q)))
      /\ inflight[q].details.neverSets =>
           (noCrossing(q) /\ sameSign(latitude, declinationOf(q)))
=============================================================================
